---------------------------- MODULE Spec2Model ----------------------------
(***************************************************************************)
(* Model of the transaction core of the Aerospike server:                  *)
(*   - the UDF transaction pipeline (transaction/udf.c),                   *)
(*   - the batch-index response pipeline (base/batch.c),                   *)
(*   - the connection reactor and file-handle registry                     *)
(*     (base/thr_demarshal.c, base/transaction.c).                         *)
(* Each subsystem has its own specification (SpecUdf, SpecBatch, SpecFd,   *)
(* and SpecFrame for the frames of one connection) over its own            *)
(* variables; the variables of the other subsystems stay at their initial  *)
(* values.                                                                 *)
(***************************************************************************)
EXTENDS Integers, Sequences, FiniteSets, TLC

(***************************************************************************)
(* Bounds of the model.                                                    *)
(***************************************************************************)
NumTrans == 2
NumKeys == 2
MaxRows == 2          \* largest number of rows of a batch request
BufferSize == 3       \* batch_buffer_pool.buffer_size, in units of one as_msg
HeaderSize == 1       \* batch_buffer_pool.header_size, in the same units
MaxTransactionSize == 3  \* BATCH_MAX_TRANSACTION_SIZE, in the same units
NumConns == 2         \* connections the listener accepts
NumAccepts == 3       \* the same, where only the listener is followed
NumSlots == 2         \* size of the file-handle table g_file_handle_a
FdMax == 1            \* g_config.n_proto_fd_max
MaxBody == 2          \* largest proto.sz the reactor accepts (PROTO_SIZE_MAX)
MaxPending == 2       \* transactions of one connection that hold a reference
MaxBatchThreads == 2  \* MAX_BATCH_THREADS, and the size of the pool at start
NumTasks == 2         \* batch requests that look for a queue
NumSubrecords == 1    \* sub-records of an LDT the script worked on
MaxCalls == 2         \* calls of as_transaction_error on one transaction
MaxFields == 2        \* largest n_fields of a data message
MaxOps == 1           \* largest n_ops of a data message
MaxFieldSz == 2       \* largest field_sz a field declares
MaxOpSz == 5          \* largest op_sz an op declares
MaxFindThreads == 3    \* MAX_BATCH_THREADS where the choice of a queue is followed
MaxChunkBody == 3      \* largest proto.sz where the bytes of a frame are followed
MaxFrames == 2         \* frames a client sends where the bytes are followed
MaxIdleMs == 1        \* largest g_config.proto_fd_idle_ms
MaxErrors == 2        \* largest g_stats.n_demarshal_error the model follows

Trans == 1..NumTrans
Keys == 1..NumKeys

VARIABLES
    utr,      \* UDF: the as_transaction of each request (queued or chained)
    urw,      \* UDF: the rw_request of each request's current attempt
    upc,      \* UDF: position of each request in the pipeline
    ustatus,  \* UDF: transaction_status last returned for each request
    ulog,     \* UDF: per-request log of externally visible events
    urwstat   \* UDF: per-request count of rw_requests created and not destroyed

VARIABLES
    bsh,      \* batch: the as_batch_shared of the batch request
    bbuf,     \* batch: the response buffers created for the batch, by id
    brow,     \* batch: each row's sub-transaction
    bdisp,    \* batch: the thread running as_batch_queue_task
    bqueue,   \* batch: the response queue of the batch's worker
    bsent,    \* batch: what has gone out on the client's socket and what
              \*        was done to the connection, in order
    buaf,     \* batch: memory was used after it was released
    bstat     \* batch: g_stats.batch_index_complete, _timeout, _errors,
              \*        and batch_queue->count

udfVars == <<utr, urw, upc, ustatus, ulog, urwstat>>
VARIABLES
    fd_h,     \* reactor: the as_file_handle of each accepted connection
    accepted, \* reactor: number of connections the listener has accepted
    proto_connections_opened,  \* g_stats.proto_connections_opened
    proto_connections_closed,  \* g_stats.proto_connections_closed
    g_freeslot,                \* number of free slots of g_file_handle_a
    reaper_count               \* g_stats.reaper_count

VARIABLES
    conn      \* frames: one connection, its as_file_handle and what the
              \*         reactor logged, counted and replied for it

batchVars == <<bsh, bbuf, brow, bdisp, bqueue, bsent, buaf, bstat>>
frameVars == <<conn>>
VARIABLES
    batch_queues,  \* resize: the array batch_queues
    thread_size,   \* resize: batch_thread_pool.thread_size
    resize,        \* resize: the thread in as_batch_threads_resize
    btask          \* resize: the batch requests in as_batch_queue_task

resizeVars == <<batch_queues, thread_size, resize, btask>>
fdVars == <<fd_h, accepted, proto_connections_opened,
            proto_connections_closed, g_freeslot, reaper_count>>
VARIABLES
    urecord,  \* UDF end: the udf_records of the head record and sub-records
    finish    \* UDF end: the thread in udf_finish and what it shipped to XDR

postVars == <<urecord, finish>>
VARIABLES
    etr,      \* error emitter: the transaction that is failed
    eout      \* error emitter: what was emitted and counted for it

errVars == <<etr, eout>>
VARIABLES
    pmsg,     \* validation: the body of a data frame as it was received
    prep      \* validation: the thread in as_transaction_demarshal_prepare

prepVars == <<pmsg, prep>>
VARIABLES
    eot       \* end of transaction: the thread in as_end_of_transaction

endVars == <<eot>>
VARIABLES
    fpool,    \* choice of a queue: the active flags of the batch queues
    ftask     \* choice of a queue: the batch request that looks for one

findVars == <<fpool, ftask>>
VARIABLES
    rx        \* reassembly: a connection and the bytes read from it

chunkVars == <<rx>>
vars == <<utr, urw, upc, ustatus, ulog, urwstat,
          bsh, bbuf, brow, bdisp, bqueue, bsent, buaf, bstat,
          fd_h, accepted, proto_connections_opened,
          proto_connections_closed, g_freeslot, reaper_count, conn,
          batch_queues, thread_size, resize, btask,
          urecord, finish,
          etr, eout,
          pmsg, prep,
          eot,
          fpool, ftask,
          rx>>

(***************************************************************************)
(* Batch-index response pipeline -- base/batch.c                           *)
(*                                                                         *)
(* Handlers work on a context b = [sh, buf, queue, sent, uaf]: the shared  *)
(* state, the buffers, the response queue, the client's socket, and the    *)
(* record of a use of released memory.  Sizes are in units of one as_msg.  *)
(***************************************************************************)
Rows == 1..MaxRows

NewBuffer(cap, sz) ==
    [capacity |-> cap, size |-> sz, tran_count |-> 1, writers |-> 2,
     pushes |-> 0, rows |-> {}, released |-> FALSE, dirty |-> FALSE]

\* A thread reads or writes the shared state: a use after free if
\* as_batch_free has run.
UseShared(b) == IF b.sh.freed > 0 THEN [b EXCEPT !.uaf = TRUE] ELSE b

\* A thread reads or writes a buffer it holds a pointer to: a use after free
\* if the worker has given the buffer back, a change behind the worker's
\* back if the buffer has been pushed to the response queue.
UseBuffer(b, id) == IF b.buf[id].released THEN [b EXCEPT !.uaf = TRUE] ELSE b

WriteBuffer(b, id) ==
    IF b.buf[id].pushes > 0 THEN [UseBuffer(b, id) EXCEPT !.buf[id].dirty = TRUE]
    ELSE UseBuffer(b, id)

Sent(kind, rows, rc) ==
    [kind |-> kind, rows |-> rows, rc |-> rc, info3 |-> "0"]

\* The cl_msg that as_batch_send_error and as_batch_send_final build.
Trailer_nolast(result_code) == Sent("trailer", {}, result_code)

Trailer(result_code) ==
    [Sent("trailer", {}, result_code) EXCEPT !.info3 = "AS_MSG_INFO3_LAST"]

\* The batch counters of g_stats, and the count of batches in flight of the
\* queue the batch is assigned to.
NoBatchStat ==
    [batch_index_complete |-> 0, batch_index_timeout |-> 0,
     batch_index_errors |-> 0, count |-> 0]

\* The counter an unsuccessful batch goes to.
batch_index_failed(stat, result_code) ==
    IF result_code = "TIMEOUT"
    THEN [stat EXCEPT !.batch_index_timeout = @ + 1]
    ELSE [stat EXCEPT !.batch_index_errors = @ + 1]

\* as_batch_send(): ok says whether the whole message went out.
\* as_end_of_transaction(fd_h, force_close) is recorded on the socket.
as_batch_send_error(b, result_code, ok) ==
    [b EXCEPT !.sent = (IF ok THEN Append(@, Trailer(result_code)) ELSE @)
                        \o <<Sent(IF ok THEN "end" ELSE "force_close", {}, "-")>>,
              !.sh.fd = FALSE,
              !.stat = batch_index_failed(@, result_code)]

\* as_batch_send_buffer()
as_batch_send_buffer_inverted(b, id, ok) ==
    IF ~b.sh.fd \/ b.sh.result_code = "OK" THEN b
    ELSE IF ok
    THEN [b EXCEPT !.sent = Append(@, Sent("buffer", b.buf[id].rows, "-"))]
    ELSE [b EXCEPT !.sent = Append(@, Sent("force_close", {}, "-")), !.sh.fd = FALSE,
                   !.stat.batch_index_errors = @ + 1]

\* as_batch_send_buffer() leaving shared->fd_h set after a failed send.
as_batch_send_buffer_keepfd(b, id, ok) ==
    IF ~b.sh.fd \/ b.sh.result_code # "OK" THEN b
    ELSE IF ok
    THEN [b EXCEPT !.sent = Append(@, Sent("buffer", b.buf[id].rows, "-"))]
    ELSE [b EXCEPT !.sent = Append(@, Sent("force_close", {}, "-")),
                   !.stat.batch_index_errors = @ + 1]

as_batch_send_buffer(b, id, ok) ==
    IF ~b.sh.fd \/ b.sh.result_code # "OK" THEN b
    ELSE IF ok
    THEN [b EXCEPT !.sent = Append(@, Sent("buffer", b.buf[id].rows, "-"))]
    ELSE [b EXCEPT !.sent = Append(@, Sent("force_close", {}, "-")), !.sh.fd = FALSE,
                   !.stat.batch_index_errors = @ + 1]

\* The statistics at the end of as_batch_send_final().
as_batch_send_final_stats_anyok(stat, status_ok, result_code) ==
    IF status_ok THEN [stat EXCEPT !.batch_index_complete = @ + 1]
    ELSE batch_index_failed(stat, result_code)

as_batch_send_final_stats(stat, status_ok, result_code) ==
    IF status_ok /\ result_code = "OK"
    THEN [stat EXCEPT !.batch_index_complete = @ + 1]
    ELSE batch_index_failed(stat, result_code)

\* as_batch_send_final() without its look at shared->fd_h.
as_batch_send_final_nofdcheck(b, ok) ==
    [b EXCEPT !.sent = (IF ok THEN Append(@, Trailer(b.sh.result_code))
                        ELSE @)
                       \o <<Sent(IF ok THEN "end" ELSE "force_close", {}, "-")>>,
              !.sh.fd = FALSE,
              !.stat = as_batch_send_final_stats(@, ok, b.sh.result_code)]

\* as_batch_send_final()
as_batch_send_final(b, ok) ==
    IF ~b.sh.fd THEN b
    ELSE [b EXCEPT !.sent = (IF ok THEN Append(@, Trailer(b.sh.result_code))
                             ELSE @)
                            \o <<Sent(IF ok THEN "end" ELSE "force_close", {}, "-")>>,
                   !.sh.fd = FALSE,
                   !.stat = as_batch_send_final_stats(@, ok, b.sh.result_code)]

\* as_batch_free() without the decrement of the queue's count.
as_batch_free_nodecr(b) == [b EXCEPT !.sh.freed = @ + 1]

\* as_batch_free(): the shared state is released, then the queue's count
\* of batches in flight is decremented.
as_batch_free(b) ==
    LET b1 == [b EXCEPT !.sh.freed = @ + 1]
    IN  [b1 EXCEPT !.stat.count = @ - 1]

\* One turn of the loop of as_batch_worker(): the buffer at the head of the
\* response queue is counted, sent and given back; the batch is finished
\* when all its rows have been counted.
as_batch_worker_nofinal(b, ok1, ok2) ==
    LET id == Head(b.queue)
        b1 == UseShared(UseBuffer([b EXCEPT !.queue = Tail(@)], id))
        b2 == [b1 EXCEPT !.sh.tran_count_response = @ + b1.buf[id].tran_count]
        b3 == IF b2.buf[id].capacity # 0 THEN as_batch_send_buffer(b2, id, ok1) ELSE b2
    IN [b3 EXCEPT !.buf[id].released = TRUE]

as_batch_worker(b, ok1, ok2) ==
    LET id == Head(b.queue)
        b1 == UseShared(UseBuffer([b EXCEPT !.queue = Tail(@)], id))
        b2 == [b1 EXCEPT !.sh.tran_count_response = @ + b1.buf[id].tran_count]
        b3 == IF b2.buf[id].capacity # 0 THEN as_batch_send_buffer(b2, id, ok1) ELSE b2
        b4 == [b3 EXCEPT !.buf[id].released = TRUE]
    IN IF b4.sh.tran_count_response = b4.sh.tran_max
       THEN as_batch_free(as_batch_send_final(b4, ok2))
       ELSE b4

\* cf_queue_pop() on the buffer pool.
PopResults == {"CF_QUEUE_OK", "CF_QUEUE_EMPTY", "CF_QUEUE_ERR"}

\* as_batch_buffer_pop(), with as_batch_buffer_create(): returns the context
\* and whether there is room for data.
as_batch_buffer_pop(b, size, status) ==
    LET mem_size == size + HeaderSize
        id == Len(b.buf) + 1
    IN IF mem_size > BufferSize
       THEN [b |-> [b EXCEPT !.buf = Append(@, NewBuffer(mem_size - HeaderSize, size)),
                             !.sh.buffer = id],
             data |-> TRUE]
       ELSE IF status \in {"CF_QUEUE_OK", "CF_QUEUE_EMPTY"}
       THEN [b |-> [b EXCEPT !.buf = Append(@, NewBuffer(BufferSize - HeaderSize, size)),
                             !.sh.buffer = id],
             data |-> TRUE]
       ELSE [b |-> [b EXCEPT !.buf = Append(@, NewBuffer(0, 0)),
                             !.sh.buffer = id,
                             !.sh.result_code = "UNKNOWN"],
             data |-> FALSE]

\* as_batch_buffer_complete()
as_batch_buffer_complete_nopush(b, id) ==
    [WriteBuffer(b, id) EXCEPT !.buf[id].writers = @ - 1]

as_batch_buffer_complete(b, id) ==
    LET b1 == [WriteBuffer(b, id) EXCEPT !.buf[id].writers = @ - 1]
    IN IF b1.buf[id].writers = 0
       THEN [UseShared(b1) EXCEPT !.queue = Append(@, id), !.buf[id].pushes = @ + 1]
       ELSE b1

\* as_batch_reserve() with a buffer taken as full one unit early.
as_batch_reserve_strict(b, size, status) ==
    LET b0 == UseShared(b)
        b1 == [b0 EXCEPT !.sh.tran_count = @ + 1]
        complete == (b1.sh.tran_count = b1.sh.tran_max)
        buffer == b1.sh.buffer
    IN IF buffer = 0
       THEN LET p == as_batch_buffer_pop(b1, size, status)
            IN [b |-> p.b, buffer |-> p.b.sh.buffer, complete |-> complete,
                prev |-> 0, data |-> p.data]
       ELSE IF b1.buf[buffer].size + size < b1.buf[buffer].capacity
       THEN [b |-> [WriteBuffer(b1, buffer) EXCEPT !.buf[buffer].size = @ + size,
                                                   !.buf[buffer].tran_count = @ + 1,
                                                   !.buf[buffer].writers = @ + 1],
             buffer |-> buffer, complete |-> complete, prev |-> 0, data |-> TRUE]
       ELSE LET p == as_batch_buffer_pop(b1, size, status)
            IN [b |-> p.b, buffer |-> p.b.sh.buffer, complete |-> complete,
                prev |-> buffer, data |-> p.data]

\* as_batch_reserve(), the part under shared->lock: returns the context, the
\* buffer the row goes to, whether this row completes the batch, the buffer
\* it replaced (0 if none) and whether there is room for the row's data.
as_batch_reserve(b, size, status) ==
    LET b0 == UseShared(b)
        b1 == [b0 EXCEPT !.sh.tran_count = @ + 1]
        complete == (b1.sh.tran_count = b1.sh.tran_max)
        buffer == b1.sh.buffer
    IN IF buffer = 0
       THEN LET p == as_batch_buffer_pop(b1, size, status)
            IN [b |-> p.b, buffer |-> p.b.sh.buffer, complete |-> complete,
                prev |-> 0, data |-> p.data]
       ELSE IF b1.buf[buffer].size + size <= b1.buf[buffer].capacity
       THEN [b |-> [WriteBuffer(b1, buffer) EXCEPT !.buf[buffer].size = @ + size,
                                                   !.buf[buffer].tran_count = @ + 1,
                                                   !.buf[buffer].writers = @ + 1],
             buffer |-> buffer, complete |-> complete, prev |-> 0, data |-> TRUE]
       ELSE LET p == as_batch_buffer_pop(b1, size, status)
            IN [b |-> p.b, buffer |-> p.b.sh.buffer, complete |-> complete,
                prev |-> buffer, data |-> p.data]

\* as_batch_terminate(), the part under shared->lock.
as_batch_terminate_nooverride(b, tran_count, result_code, status) ==
    LET b0 == UseShared(b)
        b1 == [b0 EXCEPT !.sh.result_code = result_code,
                         !.sh.tran_count = @ + tran_count]
        complete == (b1.sh.tran_count = b1.sh.tran_max)
        buffer == b1.sh.buffer
    IN IF buffer = 0
       THEN LET p == as_batch_buffer_pop(b1, 0, status)
            IN [b |-> p.b, buffer |-> p.b.sh.buffer, complete |-> complete]
       ELSE [b |-> [WriteBuffer(b1, buffer) EXCEPT !.buf[buffer].tran_count = @ + tran_count,
                                                   !.buf[buffer].writers = @ + 1],
             buffer |-> buffer, complete |-> complete]

as_batch_terminate(b, tran_count, result_code, status) ==
    LET b0 == UseShared(b)
        b1 == [b0 EXCEPT !.sh.result_code = result_code,
                         !.sh.tran_count = @ + tran_count]
        complete == (b1.sh.tran_count = b1.sh.tran_max)
        buffer == b1.sh.buffer
    IN IF buffer = 0
       THEN LET p == as_batch_buffer_pop(b1, 0, status)
                id == p.b.sh.buffer
            IN [b |-> [p.b EXCEPT !.buf[id].tran_count = tran_count],
                buffer |-> id, complete |-> complete]
       ELSE [b |-> [WriteBuffer(b1, buffer) EXCEPT !.buf[buffer].tran_count = @ + tran_count,
                                                   !.buf[buffer].writers = @ + 1],
             buffer |-> buffer, complete |-> complete]

\* The inputs as_batch_queue_task() checks before it accepts a batch, in
\* the order it checks them; g_config.batch_max_requests is MaxRows.
DefaultTask ==
    [threads_ok |-> TRUE, proto_ok |-> TRUE, sec |-> "OK", fields_ok |-> TRUE,
     tran_count |-> 1, alloc_ok |-> TRUE, lock_ok |-> TRUE, queue_ok |-> TRUE]

TaskInputs ==
    {[DefaultTask EXCEPT !.tran_count = n] : n \in 0..(MaxRows + 1)}
    \cup {[DefaultTask EXCEPT !.threads_ok = FALSE],
          [DefaultTask EXCEPT !.proto_ok = FALSE],
          [DefaultTask EXCEPT !.sec = "NOT_AUTHENTICATED"],
          [DefaultTask EXCEPT !.fields_ok = FALSE],
          [DefaultTask EXCEPT !.alloc_ok = FALSE],
          [DefaultTask EXCEPT !.lock_ok = FALSE],
          [DefaultTask EXCEPT !.queue_ok = FALSE]}

\* as_batch_queue_task(), up to the dispatch loop: the result code the
\* request is rejected with, "OK" if it is accepted.
as_batch_queue_task_check_nomax(in) ==
    IF ~in.threads_ok THEN "BATCH_DISABLED"
    ELSE IF ~in.proto_ok THEN "PARAMETER"
    ELSE IF in.sec # "OK" THEN in.sec
    ELSE IF ~in.fields_ok THEN "PARAMETER"
    ELSE IF in.tran_count = 0 THEN "PARAMETER"
    ELSE IF in.tran_count > MaxRows THEN "PARAMETER"
    ELSE IF ~in.alloc_ok THEN "UNKNOWN"
    ELSE IF ~in.lock_ok THEN "UNKNOWN"
    ELSE IF ~in.queue_ok THEN "BATCH_QUEUES_FULL"
    ELSE "OK"

as_batch_queue_task_check(in) ==
    IF ~in.threads_ok THEN "BATCH_DISABLED"
    ELSE IF ~in.proto_ok THEN "PARAMETER"
    ELSE IF in.sec # "OK" THEN in.sec
    ELSE IF ~in.fields_ok THEN "PARAMETER"
    ELSE IF in.tran_count = 0 THEN "PARAMETER"
    ELSE IF in.tran_count > MaxRows THEN "BATCH_MAX_REQUESTS"
    ELSE IF ~in.alloc_ok THEN "UNKNOWN"
    ELSE IF ~in.lock_ok THEN "UNKNOWN"
    ELSE IF ~in.queue_ok THEN "BATCH_QUEUES_FULL"
    ELSE "OK"

\* What has become of the as_batch_shared that as_batch_queue_task
\* allocates once the request has passed the checks on its content: it is
\* freed again if its lock cannot be initialised or no queue takes the
\* batch.
as_batch_queue_task_shared(in) ==
    IF \/ ~in.threads_ok \/ ~in.proto_ok \/ in.sec # "OK" \/ ~in.fields_ok
       \/ in.tran_count = 0 \/ in.tran_count > MaxRows \/ ~in.alloc_ok
    THEN "none"
    ELSE IF ~in.lock_ok \/ ~in.queue_ok THEN "freed"
    ELSE "created"

\* Result codes of a row's read, and the sizes of its response: a size over
\* MaxTransactionSize is refused by as_batch_add_result.
RowCodes == {"OK", "NOTFOUND", "TIMEOUT"}
RowSizes == 1..(MaxTransactionSize + 1)

NoShared ==
    [tran_max |-> 0, tran_count |-> 0, tran_count_response |-> 0,
     result_code |-> "OK", buffer |-> 0, fd |-> FALSE, freed |-> 0]

\* A row's sub-transaction: where it is, the buffer it got, whether it is
\* the one completing the batch, the buffer it replaced, the error code it
\* has to store ("OK" if none) and whether it has a slot to write to.
NoRow == [pc |-> "idle", buffer |-> 0, complete |-> FALSE, prev |-> 0,
          rc |-> "OK", data |-> FALSE]

\* A row whose sub-transaction has finished: its locals are gone.
DoneRow == [NoRow EXCEPT !.pc = "done"]

BCtx == [sh |-> bsh, buf |-> bbuf, queue |-> bqueue, sent |-> bsent, uaf |-> buaf,
         stat |-> bstat]

BInstall(b) ==
    /\ bsh' = b.sh
    /\ bbuf' = b.buf
    /\ bqueue' = b.queue
    /\ bsent' = b.sent
    /\ buaf' = b.uaf
    /\ bstat' = b.stat
    /\ UNCHANGED <<udfVars, fdVars, frameVars, resizeVars, postVars, errVars, prepVars, endVars, findVars, chunkVars>>

BatchInit ==
    /\ bsh = NoShared
    /\ bbuf = <<>>
    /\ brow = [r \in Rows |-> NoRow]
    /\ bdisp = [pc |-> "new", from |-> TRUE, tran_row |-> 0, buffer |-> 0,
                complete |-> FALSE,
                shared |-> "none", task |-> DefaultTask]
    /\ bqueue = <<>>
    /\ bsent = <<>>
    /\ buaf = FALSE
    /\ bstat = NoBatchStat

\* as_batch_queue_task(): the request is rejected with an error reply, or the
\* shared state is set up and takes over the connection.
BatchQueueTask ==
    /\ bdisp.pc = "new"
    /\ \E in \in TaskInputs, ok \in BOOLEAN :
          LET code == as_batch_queue_task_check(in) IN
          IF code # "OK"
          THEN /\ BInstall(as_batch_send_error(BCtx, code, ok))
               /\ bdisp' = [bdisp EXCEPT !.pc = "rejected", !.from = FALSE,
                                         !.task = in,
                                         !.shared = as_batch_queue_task_shared(in)]
          ELSE /\ BInstall([BCtx EXCEPT !.sh = [NoShared EXCEPT !.tran_max = in.tran_count,
                                                                !.fd = TRUE],
                                         !.stat.count = @ + 1])
               /\ bdisp' = [bdisp EXCEPT !.pc = "rows",
                                         !.shared = as_batch_queue_task_shared(in)]
    /\ UNCHANGED brow

\* The dispatch loop reads the next row from the request, which the shared
\* state owns, and hands it to a transaction thread; after the last row it
\* only drops its own reference to the connection.
BatchDispatch ==
    /\ bdisp.pc = "rows"
    /\ bdisp.tran_row < bsh.tran_max
    /\ BInstall(UseShared(BCtx))
    /\ brow' = [brow EXCEPT ![bdisp.tran_row + 1].pc = "queued"]
    /\ bdisp' = [bdisp EXCEPT !.tran_row = @ + 1,
                              !.pc = IF bdisp.tran_row + 1 = bsh.tran_max
                                     THEN "done" ELSE "rows",
                              !.from = (bdisp.tran_row + 1 # bsh.tran_max)]

\* The same, adding a single phantom whatever the number of missing rows.
BatchMismatch_onephantom ==
    /\ bdisp.pc = "rows"
    /\ bdisp.tran_row < bsh.tran_max
    /\ \E status \in PopResults :
          LET t == as_batch_terminate(BCtx, 1, "PARAMETER", status) IN
          /\ BInstall(t.b)
          /\ bdisp' = [bdisp EXCEPT !.pc = "term_end1", !.buffer = t.buffer,
                                    !.complete = t.complete]
    /\ UNCHANGED brow

\* The request's data ends before all its rows are read: the loop is left
\* and as_batch_terminate() adds the missing rows as phantoms.
BatchMismatch ==
    /\ bdisp.pc = "rows"
    /\ bdisp.tran_row < bsh.tran_max
    /\ \E status \in PopResults :
          LET t == as_batch_terminate(BCtx, bsh.tran_max - bdisp.tran_row,
                                      "PARAMETER", status) IN
          /\ BInstall(t.b)
          /\ bdisp' = [bdisp EXCEPT !.pc = "term_end1", !.buffer = t.buffer,
                                    !.complete = t.complete]
    /\ UNCHANGED brow

\* as_batch_transaction_end() of as_batch_terminate(): first and second
\* as_batch_buffer_complete().
BatchTermEnd1 ==
    /\ bdisp.pc = "term_end1"
    /\ BInstall(as_batch_buffer_complete(BCtx, bdisp.buffer))
    /\ bdisp' = IF bdisp.complete THEN [bdisp EXCEPT !.pc = "term_end2"]
                 ELSE [bdisp EXCEPT !.pc = "done", !.from = FALSE, !.buffer = 0]
    /\ UNCHANGED brow

BatchTermEnd2 ==
    /\ bdisp.pc = "term_end2"
    /\ BInstall(as_batch_buffer_complete(BCtx, bdisp.buffer))
    /\ bdisp' = [bdisp EXCEPT !.pc = "done", !.from = FALSE, !.buffer = 0,
                              !.complete = FALSE]
    /\ UNCHANGED brow

IsError_any(rc) == TRUE

IsError(rc) == rc \notin {"OK", "NOTFOUND"}

\* as_batch_add_result() / as_batch_add_error(): the row's sub-transaction
\* reserves its slot under shared->lock.
RowReserve(r) ==
    /\ brow[r].pc = "queued"
    /\ \E size \in RowSizes, code \in RowCodes, status \in PopResults :
          LET toobig == size > MaxTransactionSize
              rc == IF toobig THEN "RECORD_TOO_BIG" ELSE code
              v == as_batch_reserve(BCtx, IF toobig THEN 1 ELSE size, status)
          IN /\ BInstall(v.b)
             /\ brow' = [brow EXCEPT ![r] =
                    [pc |-> IF v.prev # 0 THEN "prev"
                            ELSE IF IsError(rc) THEN "rc" ELSE "end1",
                     buffer |-> v.buffer, complete |-> v.complete,
                     prev |-> v.prev, rc |-> IF IsError(rc) THEN rc ELSE "OK",
                     data |-> v.data]]
    /\ UNCHANGED bdisp

\* as_batch_reserve() after the unlock: the replaced buffer is completed.
RowPrev(r) ==
    /\ brow[r].pc = "prev"
    /\ BInstall(as_batch_buffer_complete(BCtx, brow[r].prev))
    /\ brow' = [brow EXCEPT ![r].pc = IF IsError(brow[r].rc) THEN "rc" ELSE "end1"]
    /\ UNCHANGED bdisp

\* as_batch_reserve(): an error result code is stored in the shared state,
\* outside the lock.
RowResultCode(r) ==
    /\ brow[r].pc = "rc"
    /\ BInstall([UseShared(BCtx) EXCEPT !.sh.result_code = brow[r].rc])
    /\ brow' = [brow EXCEPT ![r].pc = "end1"]
    /\ UNCHANGED bdisp

\* The row's response, carrying its batch index, is written to its slot if
\* there is one, and as_batch_transaction_end() completes the buffer ...
RowEnd1(r) ==
    /\ brow[r].pc = "end1"
    /\ LET id == brow[r].buffer
           b1 == IF brow[r].data
                 THEN [WriteBuffer(BCtx, id) EXCEPT !.buf[id].rows = @ \cup {r}]
                 ELSE BCtx
       IN BInstall(as_batch_buffer_complete(b1, id))
    /\ brow' = [brow EXCEPT ![r] = IF brow[r].complete THEN [@ EXCEPT !.pc = "end2"]
                                     ELSE DoneRow]
    /\ UNCHANGED bdisp

\* ... a second time if the row is the one that completes the batch.
RowEnd2(r) ==
    /\ brow[r].pc = "end2"
    /\ BInstall(as_batch_buffer_complete(BCtx, brow[r].buffer))
    /\ brow' = [brow EXCEPT ![r] = DoneRow]
    /\ UNCHANGED bdisp

\* The worker takes the next buffer off the response queue.
BatchWorker ==
    /\ bqueue # <<>>
    /\ \E ok1 \in BOOLEAN, ok2 \in BOOLEAN :
          BInstall(as_batch_worker(BCtx, ok1, ok2))
    /\ UNCHANGED <<brow, bdisp>>

NextBatch ==
    \/ BatchQueueTask
    \/ BatchDispatch
    \/ BatchMismatch
    \/ BatchTermEnd1
    \/ BatchTermEnd2
    \/ \E r \in Rows : RowReserve(r)
    \/ \E r \in Rows : RowPrev(r)
    \/ \E r \in Rows : RowResultCode(r)
    \/ \E r \in Rows : RowEnd1(r)
    \/ \E r \in Rows : RowEnd2(r)
    \/ BatchWorker

\* What the threads of a batch are certain to do: the thread that runs
\* as_batch_queue_task goes on to the end of the function, every
\* sub-transaction handed to a transaction thread reports its result and
\* ends, and the worker of the batch's queue, blocked in cf_queue_pop, takes
\* every buffer that is pushed.  Nothing says that a request arrives.
BatchFairness ==
    /\ WF_vars(BatchDispatch \/ BatchMismatch \/ BatchTermEnd1 \/ BatchTermEnd2)
    /\ \A r \in Rows :
          WF_vars(RowReserve(r) \/ RowPrev(r) \/ RowResultCode(r)
                    \/ RowEnd1(r) \/ RowEnd2(r))
    /\ WF_vars(BatchWorker)

(***************************************************************************)
(* Connection reactor and file-handle registry (base/thr_demarshal.c,      *)
(* base/transaction.c).  A connection is identified by the order in which  *)
(* the listener accepted it.  The reactor, the reaper and the threads      *)
(* that end transactions run concurrently; each action below is one        *)
(* step that the code makes atomic (a handler of one epoll event, one      *)
(* slot visited by the reaper under g_file_handle_a_LOCK, one of the two   *)
(* halves of as_end_of_transaction).                                       *)
(***************************************************************************)
Conns == 1..NumConns
AllConns == 1..NumAccepts
Listeners == {"service", "xdr"}

Versions == {"PROTO_VERSION", "0"}
Types == {"PROTO_TYPE_SECURITY", "PROTO_TYPE_AS_MSG", "PROTO_TYPE_MAX"}

NoProto == [version |-> "none", type |-> "none", sz |-> 0]

\* The local as_transaction of the event handler, before the handler fills
\* it in.
NoTr == [from |-> "none", msgp |-> "none", n_free |-> 0]

\* A connection: the as_file_handle and what the server did for it.  Beside
\* the handle's fields: too_big, the warning "msg greater than
\* PROTO_SIZE_MAX" was logged for the client; replies, the error replies
\* written for it by the reactor; demarshal_error, what it added to
\* g_stats.n_demarshal_error; tr, the handler's as_transaction as the last
\* demarshal error left it; oob, whether message content was read beyond
\* the end of a frame's buffer ("read"), and whether such a frame went to
\* the batch engine ("batch"); listener, the listening socket on which
\* the connection came in.  donot_reap is bit FH_INFO_DONOT_REAP of fh_info.
NoHandle ==
    [st |-> "none", rc |-> 0, in_table |-> FALSE, in_poll |-> FALSE,
     reap_me |-> FALSE, trans_active |-> FALSE, proto |-> NoProto,
     proto_unread |-> 0, sock |-> "none", txn |-> 0, ending |-> 0,
     n_close |-> 0, counted |-> 0, uaf |-> FALSE, rd |-> FALSE,
     too_big |-> FALSE, replies |-> <<>>, demarshal_error |-> 0,
     tr |-> NoTr, oob |-> "none", listener |-> "none",
     donot_reap |-> FALSE]

\* Any access to the handle's memory; after cf_rc_free it is a use after
\* free.
UseHandle(f) == IF f.st = "freed" THEN [f EXCEPT !.uaf = TRUE] ELSE f

cf_rc_reserve(f) == [UseHandle(f) EXCEPT !.rc = @ + 1]

cf_rc_release(f) == [UseHandle(f) EXCEPT !.rc = @ - 1]

cf_socket_shutdown(f) ==
    [UseHandle(f) EXCEPT !.sock = IF @ = "open" THEN "shutdown" ELSE @]

\* The handle's memory is returned: its flags have no value any more.  The
\* buffer it pointed to, the references held on it and what was done to
\* its socket outlive it.
cf_rc_free(f) ==
    [f EXCEPT !.st = "freed", !.reap_me = FALSE, !.trans_active = FALSE,
              !.proto_unread = 0]

thr_demarshal_pause_noop(f) == UseHandle(f)

thr_demarshal_pause(f) == [UseHandle(f) EXCEPT !.trans_active = TRUE]

thr_demarshal_resume(f) == [UseHandle(f) EXCEPT !.trans_active = FALSE]

\* The check that as_release_file_handle makes on the header at the start
\* of the partial-frame buffer before it frees the buffer.
BadProtoBuf(p) == p.version # "PROTO_VERSION" \/ p.type = "PROTO_TYPE_MAX"

as_release_file_handle(f) ==
    LET g == cf_rc_release(f) IN
    IF g.rc # 0
    THEN g
    ELSE cf_rc_free(
             [g EXCEPT !.sock = "closed",
                       !.donot_reap = FALSE,
                       !.proto = IF @ # NoProto /\ ~BadProtoBuf(@)
                                 THEN NoProto ELSE @,
                       !.n_close = @ + 1,
                       !.counted = @ + 1])

\* NextEvent_FD_Cleanup: proto_p and has_extra_ref are the locals of the
\* event handler.
NextEvent_FD_Cleanup(f, proto_p, has_extra_ref) ==
    LET g1 == IF proto_p THEN [UseHandle(f) EXCEPT !.proto = NoProto] ELSE f
        g2 == IF has_extra_ref THEN cf_rc_release(g1) ELSE g1
        g3 == [UseHandle(g2) EXCEPT !.in_poll = FALSE, !.reap_me = TRUE]
    IN  as_release_file_handle(g3)

\* What the header read can give: too few bytes available ("short"), a
\* failed recv ("fail"), or a header of any version, type and size.
HeaderReads ==
    {[rv |-> r, version |-> "PROTO_VERSION", type |-> "PROTO_TYPE_AS_MSG",
      sz |-> 0] : r \in {"short", "fail"}}
        \cup [rv : {"ok"}, version : Versions, type : Types,
              sz : 0..(MaxBody + 1)]

HeaderOk(h) ==
    \/ h.version = "PROTO_VERSION"
    \/ h.version = "0" /\ h.type = "PROTO_TYPE_SECURITY"

\* What the body read can give: n bytes, or no byte and an errno.
BodyReads ==
    {[n |-> 0, errno |-> e] : e \in {"EAGAIN", "ECONNRESET"}}
        \cup [n : 1..MaxBody, errno : {"none"}]

\* The size of the as_msg header that starts the body of a data frame, in
\* the unit in which the model counts body sizes.
sizeof_as_msg == 1

\* What the handler meets when it dispatches a complete frame: xdr, the
\* outcome of configuring the connection for XDR when the message asks for
\* it; batch, bit AS_MSG_INFO1_BATCH of msg.info1; wellformed, whether the
\* fields and operations of the message lie within the body; rv, the
\* return of thr_tsvc_process_or_enqueue; sent, whether an error reply
\* could be written to the socket.
Dispatches ==
    [xdr : {"ok", "failed"}, batch : BOOLEAN, wellformed : BOOLEAN,
     rv : {"queued", "failed"}, sent : BOOLEAN]

DefaultDispatch ==
    [xdr |-> "ok", batch |-> FALSE, wellformed |-> TRUE, rv |-> "queued",
     sent |-> TRUE]

\* A recv on the connection's socket; rd records that bytes were asked of
\* the connection while a transaction dispatched from it had not ended.
cf_socket_recv(f) ==
    [UseHandle(f) EXCEPT !.rd = @ \/ f.txn > 0]

\* as_end_of_transaction, first half and second half.
as_end_of_transaction_resume(f) ==
    [thr_demarshal_resume(f) EXCEPT !.txn = @ - 1, !.ending = @ + 1]

as_end_of_transaction_release(f, force_close) ==
    LET g == [f EXCEPT !.ending = @ - 1]
    IN  as_release_file_handle(
            IF force_close THEN cf_socket_shutdown(g) ELSE g)

\* as_msg_send_reply (base/proto.c): one reply of header size carrying the
\* result code is written to the socket and the transaction ends, with a
\* forced close when the write failed.
as_msg_send_reply(f, result_code, sent) ==
    LET g == [UseHandle(f) EXCEPT
                  !.replies = IF sent THEN Append(@, result_code) ELSE @]
    IN  as_end_of_transaction_release(as_end_of_transaction_resume(g),
                                      ~sent)

\* The same without the statistic.
as_transaction_demarshal_error_nocount(f, error_code, sent) ==
    [as_msg_send_reply(f, error_code, sent) EXCEPT
         !.tr = [from |-> "NULL", msgp |-> "NULL", n_free |-> 1]]

\* as_transaction_demarshal_error: reply, clear the origin, free the frame,
\* count.
as_transaction_demarshal_error(f, error_code, sent) ==
    [as_msg_send_reply(f, error_code, sent) EXCEPT
         !.tr = [from |-> "NULL", msgp |-> "NULL", n_free |-> 1],
         !.demarshal_error = @ + 1]

\* as_transaction_demarshal_prepare on a body of p.sz units.
as_transaction_demarshal_prepare(p, wellformed) ==
    IF p.sz < sizeof_as_msg THEN FALSE ELSE wellformed

\* A complete frame: pause, take the buffer from the handle, take the
\* transaction's reference and dispatch by type.  msg.info1 is read (for
\* the XDR and the batch flags) before the size of the body is looked at:
\* on a body shorter than an as_msg the byte lies beyond the buffer and
\* either value of the flag can come out.
thr_demarshal_dispatch(f, d) ==
    LET p == f.proto
        g == cf_rc_reserve([thr_demarshal_pause(f) EXCEPT
                                !.proto = NoProto, !.proto_unread = 0])
        t == [g EXCEPT !.txn = @ + 1]
        small == p.sz < sizeof_as_msg
        r == [t EXCEPT !.oob = IF small /\ @ = "none" THEN "read" ELSE @]
    IN  IF p.type = "PROTO_TYPE_MAX"
        THEN as_transaction_demarshal_error(t, "UNKNOWN", d.sent)
        ELSE IF p.type = "PROTO_TYPE_SECURITY"
        THEN t
        ELSE IF d.xdr = "failed"
        THEN NextEvent_FD_Cleanup([r EXCEPT !.txn = @ - 1], TRUE, TRUE)
        ELSE IF d.batch
        THEN [r EXCEPT !.oob = IF small THEN "batch" ELSE @]
        ELSE IF ~as_transaction_demarshal_prepare(p, d.wellformed)
        THEN as_transaction_demarshal_error(r, "PARAMETER", d.sent)
        ELSE IF d.rv = "queued"
        THEN r
        ELSE NextEvent_FD_Cleanup([r EXCEPT !.txn = @ - 1], TRUE, TRUE)

\* The body read and what follows it, from "if (fd_h->proto_unread > 0)".
thr_demarshal_body(f, b, d) ==
    LET g == IF f.proto_unread = 0 THEN f
             ELSE [cf_socket_recv(f) EXCEPT !.proto_unread = @ - b.n]
    IN  IF f.proto_unread > 0 /\ b.n = 0
        THEN IF b.errno = "EAGAIN"
             THEN g
             ELSE NextEvent_FD_Cleanup(g, TRUE, FALSE)
        ELSE IF g.proto_unread = 0 THEN thr_demarshal_dispatch(g, d)
        ELSE g

\* The same handler without the test of the declared size.
thr_demarshal_read_nocap(f, h, b, d) ==
    IF f.proto = NoProto
    THEN IF h.rv = "short" THEN UseHandle(f)
         ELSE IF h.rv = "fail" \/ ~HeaderOk(h)
         THEN NextEvent_FD_Cleanup(cf_socket_recv(f), FALSE, FALSE)
         ELSE thr_demarshal_body(
                  [cf_socket_recv(f) EXCEPT
                       !.proto = [version |-> h.version, type |-> h.type,
                                  sz |-> h.sz],
                       !.proto_unread = h.sz], b, d)
    ELSE thr_demarshal_body(UseHandle(f), b, d)

\* The handler of a readable event once it has decided to read.
thr_demarshal_read(f, h, b, d) ==
    IF f.proto = NoProto
    THEN IF h.rv = "short" THEN UseHandle(f)
         ELSE IF h.rv = "fail" \/ ~HeaderOk(h)
         THEN NextEvent_FD_Cleanup(cf_socket_recv(f), FALSE, FALSE)
         ELSE IF h.sz > MaxBody
         THEN NextEvent_FD_Cleanup(
                  [cf_socket_recv(f) EXCEPT !.too_big = TRUE], FALSE, FALSE)
         ELSE thr_demarshal_body(
                  [cf_socket_recv(f) EXCEPT
                       !.proto = [version |-> h.version, type |-> h.type,
                                  sz |-> h.sz],
                       !.proto_unread = h.sz], b, d)
    ELSE thr_demarshal_body(UseHandle(f), b, d)

\* The handler of a readable event on a connection.
thr_demarshal_event(f, h, b, d) ==
    IF UseHandle(f).trans_active
    THEN UseHandle(f)
    ELSE thr_demarshal_read(f, h, b, d)

\* The part of a dispatch input that the handler looks at for frame p.
DispatchInput(p, d) ==
    IF p.type = "PROTO_TYPE_MAX"
    THEN [DefaultDispatch EXCEPT !.sent = d.sent]
    ELSE IF p.type = "PROTO_TYPE_SECURITY"
    THEN DefaultDispatch
    ELSE IF d.xdr = "failed"
    THEN [DefaultDispatch EXCEPT !.xdr = "failed"]
    ELSE IF d.batch
    THEN [DefaultDispatch EXCEPT !.batch = TRUE]
    ELSE IF p.sz < sizeof_as_msg
    THEN [DefaultDispatch EXCEPT !.sent = d.sent]
    ELSE IF ~d.wellformed
    THEN [DefaultDispatch EXCEPT !.wellformed = FALSE, !.sent = d.sent]
    ELSE [DefaultDispatch EXCEPT !.rv = d.rv]

\* The inputs of one event, each drawn only where the handler asks for it:
\* a header when no frame is under way, a body read of at most the bytes
\* that are missing, a dispatch input when the frame completes.
EventInputs(f) ==
    LET hdr == f.proto = NoProto
        NoHeader == [rv |-> "short", version |-> "PROTO_VERSION",
                     type |-> "PROTO_TYPE_AS_MSG", sz |-> 0]
        NoBody == [n |-> 0, errno |-> "EAGAIN"]
        Body(h) == hdr => h.rv = "ok" /\ HeaderOk(h) /\ h.sz <= MaxBody
        Unread(h) == IF hdr THEN h.sz ELSE f.proto_unread
        Frame(h) == IF hdr THEN [version |-> h.version, type |-> h.type,
                                 sz |-> h.sz]
                    ELSE f.proto
        Hs == IF hdr THEN HeaderReads ELSE {NoHeader}
        Bs(h) == IF Body(h) /\ Unread(h) > 0
                 THEN {b \in BodyReads : b.n <= Unread(h)}
                 ELSE {NoBody}
        Ds(h, b) == IF Body(h) /\ Unread(h) = b.n
                    THEN {DispatchInput(Frame(h), d) : d \in Dispatches}
                    ELSE {DefaultDispatch}
    IN  UNION {UNION {{[h |-> h, b |-> b, d |-> d] : d \in Ds(h, b)} :
                          b \in Bs(h)} : h \in Hs}

\* The values of g_config.proto_fd_idle_ms (0: idle connections are kept)
\* and the time since a handle's last use, as the reaper finds them.
IdleMs == 0..MaxIdleMs
Ages == 0..(MaxIdleMs + 1)

\* "(0 != kill_ms) && (fd_h->last_used + kill_ms < now)", age being
\* now - last_used.
PastKillTime(kill_ms, age) == kill_ms # 0 /\ kill_ms < age

\* The same slot visit without the test of the protection bit.
thr_demarshal_reaper_fn_noprotect(f, kill_ms, age) ==
    IF UseHandle(f).reap_me
    THEN as_release_file_handle([UseHandle(f) EXCEPT !.in_table = FALSE])
    ELSE IF PastKillTime(kill_ms, age)
    THEN as_release_file_handle(
             [cf_socket_shutdown(f) EXCEPT !.in_table = FALSE])
    ELSE UseHandle(f)

\* One slot of the table as the reaper visits it.
thr_demarshal_reaper_fn(f, kill_ms, age) ==
    IF UseHandle(f).reap_me
    THEN as_release_file_handle([UseHandle(f) EXCEPT !.in_table = FALSE])
    ELSE IF PastKillTime(kill_ms, age)
    THEN IF f.donot_reap
         THEN UseHandle(f)
         ELSE as_release_file_handle(
                  [cf_socket_shutdown(f) EXCEPT !.in_table = FALSE])
    ELSE UseHandle(f)

\* Whether the visit adds one to g_stats.reaper_count.
ReapedIdle(f, kill_ms, age) ==
    ~f.reap_me /\ PastKillTime(kill_ms, age) /\ ~f.donot_reap

\* The listener's branch of the reactor: the handle of a new connection
\* that came in on the given listening socket.
thr_demarshal_accept(listener, conns_open, freeslots) ==
    IF listener # "xdr" /\ conns_open > FdMax
    THEN [NoHandle EXCEPT !.st = "dropped", !.sock = "closed",
                          !.listener = listener]
    ELSE LET f == cf_rc_reserve([NoHandle EXCEPT !.st = "live", !.rc = 1,
                                                 !.sock = "open",
                                                 !.listener = listener])
         IN  IF freeslots = 0
             THEN cf_rc_free([f EXCEPT !.sock = "closed"])
             ELSE [f EXCEPT !.in_table = TRUE, !.in_poll = TRUE]

Bit(b) == IF b THEN 1 ELSE 0

\* The registry is followed with the handles alone: what the reactor
\* logged, counted and replied for a connection is followed by the
\* specification of the frames of one connection.
HandleOnly(f) ==
    [f EXCEPT !.too_big = FALSE, !.replies = <<>>, !.demarshal_error = 0,
              !.tr = NoTr, !.oob = "none"]

FdInstall(c, f) ==
    /\ fd_h' = [fd_h EXCEPT ![c] = HandleOnly(f)]
    /\ proto_connections_closed' =
           proto_connections_closed + (f.counted - fd_h[c].counted)
    /\ g_freeslot' = g_freeslot + Bit(fd_h[c].in_table) - Bit(f.in_table)
    /\ UNCHANGED <<udfVars, batchVars, frameVars, resizeVars, postVars, errVars, prepVars, endVars, findVars, chunkVars>>

FdInit ==
    /\ fd_h = [c \in AllConns |-> NoHandle]
    /\ accepted = 0
    /\ proto_connections_opened = 0
    /\ proto_connections_closed = 0
    /\ g_freeslot = NumSlots
    /\ reaper_count = 0

\* A connection comes in, the n-th at most.
FdAccept(n) ==
    /\ accepted < n
    /\ \E listener \in Listeners :
         LET f == thr_demarshal_accept(listener,
                      proto_connections_opened - proto_connections_closed,
                      g_freeslot)
         IN  /\ FdInstall(accepted + 1, f)
             /\ accepted' = accepted + 1
             /\ proto_connections_opened' =
                    proto_connections_opened + Bit(f.in_poll)
    /\ UNCHANGED reaper_count

\* EPOLLRDHUP, EPOLLERR or EPOLLHUP on a connection of the poll set.
FdHup(c) ==
    /\ fd_h[c].in_poll
    /\ FdInstall(c, NextEvent_FD_Cleanup(fd_h[c], FALSE, FALSE))
    /\ UNCHANGED <<accepted, proto_connections_opened, reaper_count>>

\* EPOLLIN on a connection of the poll set.
FdRead(c) ==
    /\ fd_h[c].in_poll
    /\ fd_h[c].txn + fd_h[c].ending < MaxPending
    /\ \E in \in EventInputs(fd_h[c]) :
         FdInstall(c, thr_demarshal_event(fd_h[c], in.h, in.b, in.d))
    /\ UNCHANGED <<accepted, proto_connections_opened, reaper_count>>

FdEndResume(c) ==
    /\ fd_h[c].txn > 0
    /\ FdInstall(c, as_end_of_transaction_resume(fd_h[c]))
    /\ UNCHANGED <<accepted, proto_connections_opened, reaper_count>>

FdEndRelease(c) ==
    /\ fd_h[c].ending > 0
    /\ \E force_close \in BOOLEAN :
         FdInstall(c, as_end_of_transaction_release(fd_h[c], force_close))
    /\ UNCHANGED <<accepted, proto_connections_opened, reaper_count>>

FdReaper(c) ==
    /\ fd_h[c].in_table
    /\ \E kill_ms \in IdleMs, age \in Ages :
         /\ FdInstall(c, thr_demarshal_reaper_fn(fd_h[c], kill_ms, age))
         /\ reaper_count' =
                reaper_count + Bit(ReapedIdle(fd_h[c], kill_ms, age))
    /\ UNCHANGED <<accepted, proto_connections_opened>>

(***************************************************************************)
(* The frames of one connection: a connection that the listener has        *)
(* accepted, and the same handlers.                                        *)
(***************************************************************************)
n_demarshal_error == conn.demarshal_error

FrInstall(f) ==
    /\ conn' = f
    /\ UNCHANGED <<udfVars, batchVars, fdVars, resizeVars, postVars, errVars, prepVars, endVars, findVars, chunkVars>>

FrameInit == conn = thr_demarshal_accept("service", 0, NumSlots)

FrHup ==
    /\ conn.in_poll
    /\ FrInstall(NextEvent_FD_Cleanup(conn, FALSE, FALSE))

FrRead ==
    /\ conn.in_poll
    /\ conn.txn + conn.ending < MaxPending
    /\ \E in \in EventInputs(conn) :
         LET f == thr_demarshal_event(conn, in.h, in.b, in.d)
         IN  /\ f.demarshal_error <= MaxErrors
             /\ FrInstall(f)

FrEndResume ==
    /\ conn.txn > 0
    /\ FrInstall(as_end_of_transaction_resume(conn))

FrEndRelease ==
    /\ conn.ending > 0
    /\ \E force_close \in BOOLEAN :
         FrInstall(as_end_of_transaction_release(conn, force_close))

FrReaper ==
    /\ conn.in_table
    /\ \E kill_ms \in IdleMs, age \in Ages :
         FrInstall(thr_demarshal_reaper_fn(conn, kill_ms, age))

\* A job that runs long for the transaction in flight sets the protection
\* bit of the connection, and clears it when it is done.
FrProtect ==
    /\ conn.st = "live"
    /\ conn.txn > 0
    /\ FrInstall([conn EXCEPT !.donot_reap = ~@])

NextFrame ==
    \/ FrHup
    \/ FrRead
    \/ FrEndResume
    \/ FrEndRelease
    \/ FrReaper
    \/ FrProtect

NextFd ==
    \/ FdAccept(NumConns)
    \/ \E c \in Conns : FdHup(c)
    \/ \E c \in Conns : FdRead(c)
    \/ \E c \in Conns : FdEndResume(c)
    \/ \E c \in Conns : FdEndRelease(c)
    \/ \E c \in Conns : FdReaper(c)

\* The listener and the lifetime of connections on which no frame comes in:
\* a connection is accepted, hangs up or idles out, and is reaped.
NextAccept ==
    \/ FdAccept(NumAccepts)
    \/ \E c \in AllConns : FdHup(c)
    \/ \E c \in AllConns : FdReaper(c)

(***************************************************************************)
(* as_end_of_transaction on the handle of a connection, statement by       *)
(* statement (base/transaction.c, base/thr_demarshal.c), beside the        *)
(* reactor and the reaper.                                                 *)
(***************************************************************************)
\* as_end_of_transaction as one call.
as_end_of_transaction(f, force_close) ==
    LET g == thr_demarshal_resume(f)
    IN  as_release_file_handle(
            IF force_close THEN cf_socket_shutdown(g) ELSE g)

\* The errors of cf_poll_modify_socket_forgiving that thr_demarshal_resume
\* lets pass.
err_ok == {"ENOENT"}

\* The re-arming of the socket in thr_demarshal_resume: the socket is no
\* longer in the poll set once NextEvent_FD_Cleanup has run for it.  An
\* error outside ignored is critical.
thr_demarshal_resume_rearm(f, ignored) ==
    LET err == IF f.in_poll THEN "none" ELSE "ENOENT"
    IN  IF err = "none" THEN "ok"
        ELSE IF err \in ignored THEN "ignored"
        ELSE "crash"

\* The statements of as_end_of_transaction with the release moved to the
\* front.
as_end_of_transaction_order_releasefirst(pc, force_close) ==
    CASE pc = "call" -> "release"
      [] pc = "release" -> "resume"
      [] pc = "resume" -> IF force_close THEN "shutdown" ELSE "done"
      [] OTHER -> "done"

\* The statement that follows statement pc of as_end_of_transaction.
as_end_of_transaction_order(pc, force_close) ==
    CASE pc = "call" -> "resume"
      [] pc = "resume" -> IF force_close THEN "shutdown" ELSE "release"
      [] pc = "shutdown" -> "release"
      [] OTHER -> "done"

\* The thread that ends the transaction of the connection: pc, the
\* statement it is to make next; log, the statements it has made, each with
\* what it did to the handle; calls, how often as_end_of_transaction has
\* been invoked for the transaction; rc, the reference count found by a
\* repeated invocation; crashed, the process was terminated.
NoEnd ==
    [pc |-> "idle", force_close |-> FALSE, log |-> <<>>, calls |-> 0,
     rc |-> 0, crashed |-> FALSE]

\* What a statement did: f the handle before it and g after it.
EndStep(op, f, g, rearm) ==
    [op |-> op, d_rc |-> g.rc - f.rc, trans_active |-> g.trans_active,
     sock |-> g.sock, freed |-> g.st = "freed", rearm |-> rearm]

EndIdle == eot = NoEnd

EndInstall(f, e) ==
    /\ conn' = f
    /\ eot' = e
    /\ UNCHANGED <<udfVars, batchVars, fdVars, resizeVars, postVars,
                   errVars, prepVars, findVars, chunkVars>>

EndRunning == ~eot.crashed /\ eot.calls < 2

\* The transaction in flight invokes as_end_of_transaction.
EndCall ==
    /\ EndRunning
    /\ conn.txn > 0
    /\ eot.pc \in {"idle", "done"}
    /\ \E force_close \in BOOLEAN :
         EndInstall(conn,
             [NoEnd EXCEPT !.pc = as_end_of_transaction_order(
                                      "call", force_close),
                           !.force_close = force_close, !.calls = 1])

\* thr_demarshal_resume(proto_fd_h)
EndResume ==
    /\ EndRunning
    /\ eot.pc = "resume"
    /\ LET g == IF eot.log = <<>> THEN as_end_of_transaction_resume(conn)
                ELSE thr_demarshal_resume(conn)
           r == thr_demarshal_resume_rearm(UseHandle(conn), err_ok)
       IN  EndInstall(g,
               [eot EXCEPT !.pc = as_end_of_transaction_order(
                                      "resume", eot.force_close),
                           !.log = Append(@, EndStep("resume", conn, g, r)),
                           !.crashed = (r = "crash")])

\* cf_socket_shutdown(proto_fd_h->sock)
EndShutdown ==
    /\ EndRunning
    /\ eot.pc = "shutdown"
    /\ LET g == cf_socket_shutdown(conn)
       IN  EndInstall(g,
               [eot EXCEPT !.pc = as_end_of_transaction_order(
                                      "shutdown", eot.force_close),
                           !.log = Append(@, EndStep("shutdown", conn, g,
                                                     "none"))])

\* as_release_file_handle(proto_fd_h)
EndRelease ==
    /\ EndRunning
    /\ eot.pc = "release"
    /\ LET g == IF eot.log = <<>>
                THEN as_end_of_transaction_release(
                         [conn EXCEPT !.txn = @ - 1, !.ending = @ + 1],
                         FALSE)
                ELSE as_end_of_transaction_release(conn, FALSE)
       IN  EndInstall(g,
               [eot EXCEPT !.pc = as_end_of_transaction_order(
                                      "release", eot.force_close),
                           !.log = Append(@, EndStep("release", conn, g,
                                                     "none"))])

\* as_end_of_transaction is invoked once more for the transaction that has
\* ended, with no other transaction of the connection under way.  On a
\* handle that has been freed the call works on released memory, and the
\* process may or may not fault.
EndAgain ==
    /\ EndRunning
    /\ eot.pc = "done"
    /\ eot.calls = 1
    /\ conn.txn = 0 /\ conn.ending = 0
    /\ \E force_close \in BOOLEAN, fault \in BOOLEAN :
         LET g == as_end_of_transaction(conn, force_close)
         IN  EndInstall(g,
                 [eot EXCEPT !.calls = 2, !.rc = conn.rc,
                             !.crashed = g.uaf /\ fault])

NextEnd ==
    \/ EndRunning /\ FrHup
    \/ EndRunning /\ FrRead
    \/ EndRunning /\ FrReaper
    \/ EndCall
    \/ EndResume
    \/ EndShutdown
    \/ EndRelease
    \/ EndAgain

(***************************************************************************)
(* UDF pipeline -- transaction/udf.c                                       *)
(***************************************************************************)
Origins == {"FROM_CLIENT", "FROM_PROXY", "FROM_IUDF"}

\* as_transaction_init_head + origin setup: from.any is set by the creator.
NewTr(o, k) == [origin |-> o, from |-> TRUE, key |-> k, result_code |-> "OK"]

\* rw_request_create(): a zeroed rw_request holding one reference.
rw_request_create(u) ==
    [u EXCEPT !.rw = [state |-> "created", from |-> FALSE, origin |-> "NONE",
                      respond |-> FALSE, set_up |-> FALSE, phase |-> "none",
                      timed_out |-> FALSE],
              !.stat.live = @ + 1]

NoRw == [state |-> "none", from |-> FALSE, origin |-> "NONE", respond |-> FALSE,
         set_up |-> FALSE, phase |-> "none", timed_out |-> FALSE]

\* rw_request_release() of the creator's reference when the rw_request never
\* got into the hash: the last reference, so the rw_request is destroyed.
rw_request_release(u) ==
    [u EXCEPT !.rw.state = "released", !.stat.live = @ - 1]

\* rw_request_hash_delete(): removes the rw_request from the hash, dropping
\* the hash's reference; a no-op if it is no longer there.
rw_request_hash_delete(u) ==
    IF u.rw.state = "in_hash"
    THEN [u EXCEPT !.rw.state = "released", !.stat.live = @ - 1]
    ELSE u

Ev(e, rc) == [ev |-> e, rc |-> rc]

\* The request hash as seen by a request on key k: some other request's
\* rw_request with the same key is in the hash.
KeyBusy(t, k) ==
    \E t2 \in Trans : t2 # t /\ urw[t2].state = "in_hash" /\ utr[t2].key = k

\* rw_request_hash_insert(): WAITING when the key is already in the hash,
\* otherwise inserted (IN_PROGRESS) unless the insert itself fails (ins).
rw_request_hash_insert(t, k, ins) ==
    IF KeyBusy(t, k) THEN "TRANS_WAITING" ELSE ins

\* rw_request_hash_insert() leaves the reason in the transaction when it
\* fails the request.
rw_request_hash_insert_rc(u, status) ==
    IF status = "TRANS_DONE_ERROR" THEN [u EXCEPT !.tr.result_code = "KEY_BUSY"] ELSE u

\* respond_on_master_complete() of rw_utils.h; cfg stands for
\* g_config.respond_client_on_master_completion or commit level MASTER.
respond_on_master_complete(tr, cfg) == tr.origin = "FROM_CLIENT" /\ cfg

\* The counters n_*_udf_complete, n_*_udf_timeout and n_*_udf_error of a
\* namespace.
NoCount == [complete |-> 0, timeout |-> 0, error |-> 0]

client_udf_update_stats(c, result_code) ==
    CASE result_code = "OK" -> [c EXCEPT !.complete = @ + 1]
      [] result_code = "TIMEOUT" -> [c EXCEPT !.timeout = @ + 1]
      [] OTHER -> [c EXCEPT !.error = @ + 1]

udf_sub_udf_update_stats(c, result_code) ==
    CASE result_code = "OK" -> [c EXCEPT !.complete = @ + 1]
      [] result_code = "TIMEOUT" -> [c EXCEPT !.timeout = @ + 1]
      [] OTHER -> [c EXCEPT !.error = @ + 1]

\* The statistics send_udf_response updates after the response: for a
\* client a data point in udf_hist and a client counter, for an internal
\* UDF a sub-UDF counter.
send_udf_response_stats(u, origin, result_code) ==
    CASE origin = "FROM_CLIENT" ->
           [u EXCEPT !.stat.udf_hist = @ + 1,
                     !.stat.client_udf =
                         client_udf_update_stats(@, result_code)]
      [] origin = "FROM_IUDF" ->
           [u EXCEPT !.stat.udf_sub_udf =
                         udf_sub_udf_update_stats(@, result_code)]
      [] OTHER -> u

\* send_udf_response(): u is the context [tr, rw, log, stat].
send_udf_response_noguard(u) ==
    send_udf_response_stats(
        [u EXCEPT !.tr.from = FALSE,
                  !.log = Append(@, Ev(IF u.tr.origin = "FROM_IUDF" THEN "iudf_cb"
                                       ELSE "reply", u.tr.result_code))],
        u.tr.origin, u.tr.result_code)

send_udf_response(u) ==
    IF ~u.tr.from THEN u
    ELSE send_udf_response_stats(
             [u EXCEPT !.tr.from = FALSE,
                       !.log = Append(@, Ev(IF u.tr.origin = "FROM_IUDF"
                                            THEN "iudf_cb" ELSE "reply",
                                            u.tr.result_code))],
             u.tr.origin, u.tr.result_code)


\* send_rw_messages(): the dup-res or repl-write fabric messages go out.
send_rw_messages(u, kind) == [u EXCEPT !.log = Append(@, Ev(kind, "-"))]

\* dup_res_setup_rw(): the origin moves from the transaction into the
\* rw_request, the callbacks are registered and the rw_request is set up.
dup_res_setup_rw(u) ==
    [u EXCEPT !.rw.from = u.tr.from, !.rw.origin = u.tr.origin,
              !.tr.from = FALSE,
              !.rw.set_up = TRUE, !.rw.phase = "dup_res"]

\* repl_write_setup_rw(): as dup_res_setup_rw, for the replica-write phase.
repl_write_setup_rw(u) ==
    [u EXCEPT !.rw.from = u.tr.from, !.rw.origin = u.tr.origin,
              !.tr.from = FALSE,
              !.rw.set_up = TRUE, !.rw.phase = "repl_write"]

\* repl_write_reset_rw(): the rw_request used for dup-res is recycled for the
\* replica writes; rw->from.any, nulled by as_transaction_init_from_rw, is
\* reset from the transaction.
repl_write_reset_rw(u) ==
    [u EXCEPT !.rw.from = u.tr.from, !.tr.from = FALSE, !.rw.phase = "repl_write"]

\* as_transaction_init_from_rw() / as_transaction_init_head_from_rw().
as_transaction_init_from_rw(u) ==
    [u EXCEPT !.tr.origin = u.rw.origin, !.tr.from = u.rw.from,
              !.tr.result_code = "OK", !.rw.from = FALSE]

\* Results of udf_master_apply(): the operation type and the result code it
\* leaves in the transaction.
ApplyErrors == {"KEY_MISMATCH", "UDF_EXECUTION"}

\* as_record_get() with the expiry test that follows it: 0 for a record that
\* is in the index and has not expired, -1 for a key without a record and
\* for an expired record ("pretend it was not found").
as_record_get_live(rec) ==
    LET get_rv == IF rec = "absent" THEN -1 ELSE 0
    IN  IF get_rv = 0 /\ rec = "expired" THEN -1 ELSE get_rv

\* What udf_master_apply meets: the state of the key's record, whether the
\* storage record opens, whether the key of the message matches the stored
\* one, what as_module_apply_record returns, and the type udf_finish works
\* out when the script has run.  A script deletes only a record that was
\* there.
RecordStates == {"absent", "expired", "live"}

ApplyCases ==
    {c \in [rec : RecordStates, storage_ok : {TRUE}, key_ok : BOOLEAN,
            apply_rv : {0, -1}, optype : {"READ", "NONE", "WRITE", "DELETE"}] :
        /\ c.optype = "DELETE" => c.rec = "live"
        /\ ~c.key_ok => c.rec = "live"}

ApplyOutcome(optype, rc, ran, created) ==
    [optype |-> optype, rc |-> rc, ran |-> ran, created |-> created]

\* udf_master_apply() without the test for internal UDFs.
udf_master_apply_create(origin, c) ==
    LET get_rv == as_record_get_live(c.rec) IN
    IF get_rv = 0 /\ ~c.storage_ok
    THEN ApplyOutcome("NONE", "BIN_NAME", FALSE, FALSE)
    ELSE IF get_rv = 0 /\ ~c.key_ok
    THEN ApplyOutcome("NONE", "KEY_MISMATCH", FALSE, FALSE)
    ELSE IF c.apply_rv # 0
    THEN ApplyOutcome("NONE", "UDF_EXECUTION", TRUE, FALSE)
    ELSE ApplyOutcome(c.optype, "OK", TRUE, get_rv = -1 /\ c.optype = "WRITE")

\* udf_master_apply(): the type of the operation, the result code left in
\* the transaction, whether the script ran and whether the key has a record
\* it did not have before.
udf_master_apply(origin, c) ==
    LET get_rv == as_record_get_live(c.rec) IN
    IF get_rv = -1 /\ origin = "FROM_IUDF"
    THEN ApplyOutcome("NONE", "NOTFOUND", FALSE, FALSE)
    ELSE IF get_rv = 0 /\ ~c.storage_ok
    THEN ApplyOutcome("NONE", "BIN_NAME", FALSE, FALSE)
    ELSE IF get_rv = 0 /\ ~c.key_ok
    THEN ApplyOutcome("NONE", "KEY_MISMATCH", FALSE, FALSE)
    ELSE IF c.apply_rv # 0
    THEN ApplyOutcome("NONE", "UDF_EXECUTION", TRUE, FALSE)
    ELSE ApplyOutcome(c.optype, "OK", TRUE, get_rv = -1 /\ c.optype = "WRITE")

\* What udf_master gets: the outcome of udf_def_init_from_msg for a request
\* that carries its definition in the message, and the type and result code
\* of udf_master_apply.
MasterResults(origin) ==
    {[def_ok |-> TRUE, optype |-> r.optype, rc |-> r.rc] :
        r \in {udf_master_apply(origin, c) : c \in ApplyCases}}
    \cup (IF origin = "FROM_IUDF" THEN {}
          ELSE {[def_ok |-> FALSE, optype |-> "NONE", rc |-> "PARAMETER"]})

\* udf_master(): m is the outcome of udf_def_init_from_msg and of
\* udf_master_apply.  Returns the context and the transaction status.
udf_master(u, m) ==
    IF u.tr.origin # "FROM_IUDF" /\ ~m.def_ok
    THEN [u |-> [u EXCEPT !.tr.result_code = "PARAMETER"],
          status |-> "TRANS_DONE_ERROR"]
    ELSE LET u1 == [u EXCEPT !.tr.result_code = m.rc,
                             !.log = Append(@, Ev("master", m.rc))]
         IN IF m.optype \in {"READ", "NONE"}
            THEN [u |-> u1, status |-> "TRANS_DONE_SUCCESS"]
            ELSE [u |-> u1, status |-> "TRANS_IN_PROGRESS"]

\* start_udf_dup_res()
start_udf_dup_res(u, in) ==
    IF ~in.dup_msg_ok THEN [ok |-> FALSE, u |-> u]
    ELSE LET u1 == [u EXCEPT !.rw.respond = respond_on_master_complete(u.tr, in.cfg)]
         IN [ok |-> TRUE, u |-> send_rw_messages(dup_res_setup_rw(u1), "send_dup")]

\* start_udf_repl_write()
start_udf_repl_write_late(u, in) ==
    IF ~in.repl_msg_ok THEN [ok |-> FALSE, u |-> u]
    ELSE LET u1 == [u EXCEPT !.rw.respond = respond_on_master_complete(u.tr, in.cfg)]
         IN [ok |-> TRUE, u |-> send_rw_messages(repl_write_setup_rw(u1), "send_repl")]

start_udf_repl_write(u, in) ==
    IF ~in.repl_msg_ok THEN [ok |-> FALSE, u |-> u]
    ELSE LET u1 == [u EXCEPT !.rw.respond = respond_on_master_complete(u.tr, in.cfg)]
             u2 == IF u1.rw.respond THEN send_udf_response(u1) ELSE u1
         IN [ok |-> TRUE, u |-> send_rw_messages(repl_write_setup_rw(u2), "send_repl")]

\* udf_repl_write_after_dup_res()
udf_repl_write_after_dup_res(u, in) ==
    IF ~in.repl_msg_ok THEN [ok |-> FALSE, u |-> u]
    ELSE LET u1 == IF u.rw.respond THEN send_udf_response(u) ELSE u
         IN [ok |-> TRUE, u |-> send_rw_messages(repl_write_reset_rw(u1), "send_repl")]

\* The context a handler works on: the transaction, the rw_request, the
\* event log and the rw_request counters of request t.
Ctx(t) == [tr |-> utr[t], rw |-> urw[t], log |-> ulog[t], stat |-> urwstat[t]]

InsertResults == {"TRANS_IN_PROGRESS", "TRANS_DONE_ERROR", "TRANS_DONE_SUCCESS"}

\* as_udf_start(), first part: the XDR filter, the overload check, creation
\* of the rw_request and its insertion in the request hash.
as_udf_start_insert_norelease(t, xdr_ok, overloaded, ins) ==
    LET u0 == Ctx(t) IN
    IF ~xdr_ok
    THEN [u |-> send_udf_response([u0 EXCEPT !.tr.result_code = "FORBIDDEN"]),
          status |-> "TRANS_DONE_ERROR"]
    ELSE IF overloaded
    THEN [u |-> send_udf_response([u0 EXCEPT !.tr.result_code = "DEVICE_OVERLOAD"]),
          status |-> "TRANS_DONE_ERROR"]
    ELSE LET u1 == rw_request_create(u0)
             status == rw_request_hash_insert(t, u0.tr.key, ins)
         IN IF status # "TRANS_IN_PROGRESS"
            THEN LET u3 == rw_request_hash_insert_rc(u1, status)
                 IN [u |-> IF status # "TRANS_WAITING"
                           THEN send_udf_response(u3) ELSE u3,
                     status |-> status]
            ELSE [u |-> [u1 EXCEPT !.rw.state = "in_hash"], status |-> status]

\* as_udf_start without the XDR filter and the overload check.
as_udf_start_insert_nofilter(t, xdr_ok, overloaded, ins) ==
    LET u1 == rw_request_create(Ctx(t))
        status == rw_request_hash_insert(t, utr[t].key, ins)
    IN IF status # "TRANS_IN_PROGRESS"
       THEN LET u2 == rw_request_release(rw_request_hash_insert_rc(u1, status))
            IN [u |-> IF status # "TRANS_WAITING"
                      THEN send_udf_response(u2) ELSE u2,
                status |-> status]
       ELSE [u |-> [u1 EXCEPT !.rw.state = "in_hash"], status |-> status]

as_udf_start_insert(t, xdr_ok, overloaded, ins) ==
    LET u0 == Ctx(t) IN
    IF ~xdr_ok
    THEN [u |-> send_udf_response([u0 EXCEPT !.tr.result_code = "FORBIDDEN"]),
          status |-> "TRANS_DONE_ERROR"]
    ELSE IF overloaded
    THEN [u |-> send_udf_response([u0 EXCEPT !.tr.result_code = "DEVICE_OVERLOAD"]),
          status |-> "TRANS_DONE_ERROR"]
    ELSE LET u1 == rw_request_create(u0)
             status == rw_request_hash_insert(t, u0.tr.key, ins)
         IN IF status # "TRANS_IN_PROGRESS"
            THEN LET u2 == rw_request_release(rw_request_hash_insert_rc(u1, status))
                 IN [u |-> IF status # "TRANS_WAITING"
                           THEN send_udf_response(u2) ELSE u2,
                     status |-> status]
            ELSE [u |-> [u1 EXCEPT !.rw.state = "in_hash"], status |-> status]

\* The inputs of the second part of as_udf_start and of udf_dup_res_cb:
\* write_duplicate_resolution_disable, rsv.n_dupl, whether the dup-res message
\* could be made, the outcome of master-apply, the number of replica nodes,
\* whether the repl-write message could be made, and the respond-on-master
\* configuration.  An input the code does not read on a path keeps one value.
DefaultIn ==
    [dup_disable |-> FALSE, n_dupl |-> 0, dup_msg_ok |-> TRUE,
     master |-> [def_ok |-> TRUE, optype |-> "READ", rc |-> "OK"],
     n_dest |-> 0, repl_msg_ok |-> TRUE, cfg |-> FALSE]

MasterInputs(origin) ==
    {[DefaultIn EXCEPT !.master = m] : m \in MasterResults(origin)}
    \cup {[DefaultIn EXCEPT !.master = m, !.n_dest = 1, !.repl_msg_ok = FALSE] :
        m \in {x \in MasterResults(origin) : x.optype = "WRITE"}}
    \cup {[DefaultIn EXCEPT !.master = m, !.n_dest = 1, !.cfg = c] :
        m \in {x \in MasterResults(origin) : x.optype \in {"WRITE", "DELETE"}},
        c \in BOOLEAN}

ApplyInputs(origin) ==
    {[DefaultIn EXCEPT !.n_dupl = 1, !.dup_msg_ok = ok, !.cfg = c] :
        ok \in BOOLEAN, c \in BOOLEAN}
    \cup MasterInputs(origin)
    \cup {[DefaultIn EXCEPT !.dup_disable = TRUE, !.n_dupl = 1]}

\* The tail shared by as_udf_start and udf_dup_res_cb once master-apply has
\* run is written out in each, as in the source.

\* as_udf_start(), second part: the rw_request is in the hash.
as_udf_start_apply(t, in) ==
    LET u0 == Ctx(t)
        n_dupl == IF in.dup_disable THEN 0 ELSE in.n_dupl
    IN
    IF n_dupl # 0
    THEN LET d == start_udf_dup_res(u0, in) IN
         IF ~d.ok
         THEN [u |-> send_udf_response(
                        [rw_request_hash_delete(d.u) EXCEPT !.tr.result_code = "UNKNOWN"]),
               status |-> "TRANS_DONE_ERROR"]
         ELSE [u |-> d.u, status |-> "TRANS_IN_PROGRESS"]
    ELSE LET m == udf_master(u0, in.master) IN
         IF m.status # "TRANS_IN_PROGRESS"
         THEN [u |-> rw_request_hash_delete(send_udf_response(m.u)),
               status |-> m.status]
         ELSE IF in.n_dest = 0
         THEN [u |-> rw_request_hash_delete(send_udf_response(m.u)),
               status |-> "TRANS_DONE_SUCCESS"]
         ELSE LET r == start_udf_repl_write(m.u, in) IN
              IF ~r.ok
              THEN [u |-> send_udf_response(
                        [rw_request_hash_delete(r.u) EXCEPT !.tr.result_code = "UNKNOWN"]),
                    status |-> "TRANS_DONE_ERROR"]
              ELSE [u |-> r.u, status |-> "TRANS_IN_PROGRESS"]

\* udf_dup_res_cb() keeping the rw_request when there is no replica node.
udf_dup_res_cb_keep(u, in) ==
    LET u0 == as_transaction_init_from_rw(u)
        m == udf_master(u0, in.master)
    IN
    IF m.status # "TRANS_IN_PROGRESS"
    THEN [u |-> send_udf_response(m.u), delete |-> TRUE]
    ELSE IF in.n_dest = 0
    THEN [u |-> send_udf_response(m.u), delete |-> FALSE]
    ELSE LET r == udf_repl_write_after_dup_res(m.u, in) IN
         IF ~r.ok
         THEN [u |-> send_udf_response([r.u EXCEPT !.tr.result_code = "UNKNOWN"]),
               delete |-> TRUE]
         ELSE [u |-> r.u, delete |-> FALSE]

\* udf_dup_res_cb(): returns the context and whether the rw_request is to be
\* deleted from the hash (true) or kept for the replica writes (false).
udf_dup_res_cb(u, in) ==
    LET u0 == as_transaction_init_from_rw(u)
        m == udf_master(u0, in.master)
    IN
    IF m.status # "TRANS_IN_PROGRESS"
    THEN [u |-> send_udf_response(m.u), delete |-> TRUE]
    ELSE IF in.n_dest = 0
    THEN [u |-> send_udf_response(m.u), delete |-> TRUE]
    ELSE LET r == udf_repl_write_after_dup_res(m.u, in) IN
         IF ~r.ok
         THEN [u |-> send_udf_response([r.u EXCEPT !.tr.result_code = "UNKNOWN"]),
               delete |-> TRUE]
         ELSE [u |-> r.u, delete |-> FALSE]

\* udf_repl_write_cb()
udf_repl_write_cb(u) == send_udf_response(as_transaction_init_from_rw(u))

\* as_end_of_transaction_force_close()
as_end_of_transaction_force_close(f) ==
    as_end_of_transaction_release(as_end_of_transaction_resume(f), TRUE)

\* udf_timeout_cb() once it has found rw->from.any set: the client's
\* connection is force-closed and the timeout counted, a proxying node
\* gets nothing, the job of an internal UDF gets its callback and the
\* timeout is counted.
udf_timeout_cb_origin(u) ==
    CASE u.rw.origin = "FROM_CLIENT" ->
           [u EXCEPT !.log = Append(@, Ev("force_close", "TIMEOUT")),
                     !.stat.fd_h = as_end_of_transaction_force_close(@),
                     !.stat.client_udf =
                         client_udf_update_stats(@, "TIMEOUT")]
      [] u.rw.origin = "FROM_PROXY" ->
           [u EXCEPT !.log = Append(@, Ev("proxy_timeout", "TIMEOUT"))]
      [] OTHER ->
           [u EXCEPT !.log = Append(@, Ev("iudf_cb", "TIMEOUT")),
                     !.stat.udf_sub_udf =
                         udf_sub_udf_update_stats(@, "TIMEOUT")]

\* udf_timeout_cb()
udf_timeout_cb_noguard(u) ==
    [udf_timeout_cb_origin(u) EXCEPT !.rw.from = FALSE]

udf_timeout_cb(u) ==
    IF ~u.rw.from THEN u
    ELSE [udf_timeout_cb_origin(u) EXCEPT !.rw.from = FALSE]

\* The fabric handler of a dup-res ack, under the rw_request lock: a
\* rw_request whose origin was taken by the timeout lost the race and is left
\* alone; otherwise the registered callback runs and, if it says so, the
\* rw_request is deleted from the hash.
dup_res_handle_ack(u, in) ==
    IF ~u.rw.from THEN [u EXCEPT !.rw.phase = "done"]
    ELSE LET r == udf_dup_res_cb(u, in) IN
         IF r.delete
         THEN [rw_request_hash_delete(r.u) EXCEPT !.rw.phase = "done"]
         ELSE r.u

\* The fabric handler of the last repl-write ack, under the rw_request lock:
\* the registered callback runs and the rw_request is deleted from the hash.
repl_write_handle_ack(u) ==
    [rw_request_hash_delete(udf_repl_write_cb(u)) EXCEPT !.rw.phase = "done"]

\* The retransmit thread on a rw_request past its end time, under the
\* rw_request lock: the registered timeout callback runs and the rw_request
\* is deleted from the hash.
retransmit_timeout(u) ==
    [rw_request_hash_delete(udf_timeout_cb(u)) EXCEPT !.rw.timed_out = TRUE]

Install(t, u, status, pc) ==
    /\ utr' = [utr EXCEPT ![t] = u.tr]
    /\ urw' = [urw EXCEPT ![t] = u.rw]
    /\ ulog' = [ulog EXCEPT ![t] = u.log]
    /\ urwstat' = [urwstat EXCEPT ![t] = u.stat]
    /\ ustatus' = [ustatus EXCEPT ![t] = status]
    /\ upc' = [upc EXCEPT ![t] = pc]
    /\ UNCHANGED <<batchVars, fdVars, frameVars, resizeVars, postVars, errVars, prepVars, endVars, findVars, chunkVars>>

PcOf(u) == IF u.rw.state = "in_hash" THEN "in_progress" ELSE "done"

\* Requests are interchangeable and so are keys: Init lists each population
\* of requests once.  Keys are numbered in order of first use, requests on
\* one key come together with the larger groups first, and the origins are
\* in a fixed order within a group and between groups of one size.
OriginRank(o) == CASE o = "FROM_CLIENT" -> 1 [] o = "FROM_PROXY" -> 2 [] OTHER -> 3

GroupSize(f, k) == Cardinality({t \in Trans : f[t].key = k})

Canonical(f) ==
    /\ f[1].key = 1
    /\ \A t \in Trans : t > 1 =>
          /\ f[t].key \in {f[t - 1].key, f[t - 1].key + 1}
          /\ GroupSize(f, f[t - 1].key) >= GroupSize(f, f[t].key)
          /\ (f[t].key = f[t - 1].key \/ GroupSize(f, f[t - 1].key) = 1)
                => OriginRank(f[t - 1].origin) <= OriginRank(f[t].origin)

\* The file handle of a client whose request is with the service threads:
\* accepted, and one frame of it dispatched.
ClientHandle ==
    thr_demarshal_dispatch(
        [thr_demarshal_accept("service", 0, NumSlots) EXCEPT
             !.proto = [version |-> "PROTO_VERSION",
                        type |-> "PROTO_TYPE_AS_MSG", sz |-> sizeof_as_msg]],
        DefaultDispatch)

\* What is followed for a request beside its transaction: the rw_requests
\* alive, the file handle of a client as far as the UDF code acts on it
\* itself, the UDF counters of the namespace and the data points of
\* udf_hist.
NoStat(origin) ==
    [live |-> 0,
     fd_h |-> IF origin = "FROM_CLIENT" THEN ClientHandle ELSE NoHandle,
     client_udf |-> NoCount, udf_sub_udf |-> NoCount, udf_hist |-> 0]

UdfInit ==
    /\ utr \in {f \in [Trans -> {NewTr(o, k) : o \in Origins, k \in Keys}] : Canonical(f)}
    /\ urw = [t \in Trans |-> NoRw]
    /\ upc = [t \in Trans |-> "queued"]
    /\ ustatus = [t \in Trans |-> "NONE"]
    /\ ulog = [t \in Trans |-> <<>>]
    /\ urwstat = [t \in Trans |-> NoStat(utr[t].origin)]

\* The inputs of the first part of as_udf_start: whether the XDR filter lets
\* the request through, whether the namespace is overloaded, and the outcome
\* of the hash insert on a free key.  An input the code does not get to read
\* keeps one value.
InsertInputs ==
    {[xdr_ok |-> FALSE, overloaded |-> FALSE, ins |-> "TRANS_IN_PROGRESS"],
     [xdr_ok |-> TRUE, overloaded |-> TRUE, ins |-> "TRANS_IN_PROGRESS"]}
    \cup {[xdr_ok |-> TRUE, overloaded |-> FALSE, ins |-> i] : i \in InsertResults}

\* A service thread takes the request off the queue and runs as_udf_start up
\* to the hash insert.
UdfStartInsert(t) ==
    /\ upc[t] = "queued"
    /\ \E in \in InsertInputs :
          LET r == as_udf_start_insert(t, in.xdr_ok, in.overloaded, in.ins) IN
          Install(t, r.u, r.status,
                  CASE r.status = "TRANS_IN_PROGRESS" -> "inserted"
                    [] r.status = "TRANS_WAITING" -> "waiting"
                    [] OTHER -> "done")

\* ... and continues with dup-res, master-apply and the replica writes.
UdfStartApply(t) ==
    /\ upc[t] = "inserted"
    /\ \E in \in ApplyInputs(utr[t].origin) :
          LET r == as_udf_start_apply(t, in) IN
          Install(t, r.u, r.status, PcOf(r.u))

\* All dup-res acks are in.
DupResAck(t) ==
    /\ urw[t].phase = "dup_res"
    /\ \E in \in MasterInputs(urw[t].origin) :
          LET u == dup_res_handle_ack(Ctx(t), in) IN
          Install(t, u, ustatus[t], PcOf(u))

\* All repl-write acks are in.
ReplWriteAck(t) ==
    /\ urw[t].phase = "repl_write"
    /\ LET u == repl_write_handle_ack(Ctx(t)) IN
       Install(t, u, ustatus[t], PcOf(u))

\* The retransmit thread finds the rw_request timed out.  It may do so as
\* long as the rw_request is set up, also when an ack handler has just
\* finished with it and not yet deleted it.
UdfTimeout(t) ==
    /\ urw[t].set_up
    /\ ~urw[t].timed_out
    /\ LET u == retransmit_timeout(Ctx(t)) IN
       Install(t, u, ustatus[t], PcOf(u))

\* A request chained behind another one on its key is queued again when that
\* one has left the hash.
UdfRequeue(t) ==
    /\ upc[t] = "waiting"
    /\ ~KeyBusy(t, utr[t].key)
    /\ upc' = [upc EXCEPT ![t] = "queued"]
    /\ UNCHANGED <<utr, urw, ustatus, ulog, urwstat>>
    /\ UNCHANGED <<batchVars, fdVars, frameVars, resizeVars, postVars, errVars, prepVars, endVars, findVars, chunkVars>>

NextUdf ==
    \E t \in Trans :
        \/ UdfStartInsert(t)
        \/ UdfStartApply(t)
        \/ DupResAck(t)
        \/ ReplWriteAck(t)
        \/ UdfTimeout(t)
        \/ UdfRequeue(t)


(***************************************************************************)
(* Resizing the batch thread pool (base/batch.c): the response queues of   *)
(* the batch workers, the thread that runs as_batch_threads_resize, the    *)
(* workers, and the batch requests that pick a queue in                    *)
(* as_batch_queue_task.  A step is one access to the shared queue array,   *)
(* or one loop over it where the code reads nothing else in between.       *)
(***************************************************************************)
QueueIds == 0..(MaxBatchThreads - 1)
Tasks == 1..NumTasks

\* A slot of batch_queues that was never created, or whose queues were
\* destroyed: response_queue and complete_queue are null.  items is the
\* content of response_queue (Stop for the response without a batch, else
\* the batch whose last buffer it is),
\* complete the number of notifications in complete_queue, stops the
\* sentinels pushed since the queues were created, and busy_destroyed and
\* dead_push record that the queues were destroyed while a batch counted on
\* them and that a batch pushed to destroyed queues.
Stop == 0

NoQueue ==
    [active |-> FALSE, count |-> 0, exists |-> FALSE, items |-> <<>>,
     worker |-> "none", complete |-> 0, stops |-> 0,
     busy_destroyed |-> FALSE, dead_push |-> FALSE]

\* as_batch_create_thread_queues for one queue, and the worker that
\* as_thread_pool_queue_task_fixed starts on it.
as_batch_create_thread_queue(q) ==
    [NoQueue EXCEPT !.active = TRUE, !.exists = TRUE, !.worker = "running",
                    !.busy_destroyed = q.busy_destroyed,
                    !.dead_push = q.dead_push]

Surplus(begin, end) == {i \in QueueIds : begin <= i /\ i < end}

\* as_batch_wait over the queues begin..end-1.
as_batch_wait(q, begin, end) == \A i \in Surplus(begin, end) : q[i].count = 0

\* as_batch_shutdown_thread_queues, first loop.
as_batch_shutdown_deactivate(q, begin, end) ==
    [i \in QueueIds |->
        IF i \in Surplus(begin, end) THEN [q[i] EXCEPT !.active = FALSE]
        ELSE q[i]]

\* The timeout branch without the loop that sets the queues active again.
as_batch_shutdown_timeout_stayoff(q, begin, end) == q

\* as_batch_shutdown_thread_queues, the branch taken on timeout.
as_batch_shutdown_timeout(q, begin, end) ==
    [i \in QueueIds |->
        IF i \in Surplus(begin, end) THEN [q[i] EXCEPT !.active = TRUE]
        ELSE q[i]]

\* as_batch_shutdown_thread_queues, the loop that sends the stop command.
as_batch_shutdown_stop(q, begin, end) ==
    [i \in QueueIds |->
        IF i \in Surplus(begin, end)
        THEN [q[i] EXCEPT !.items = Append(@, Stop), !.stops = @ + 1,
                          !.dead_push = @ \/ ~q[i].exists]
        ELSE q[i]]

\* as_batch_shutdown_thread_queues, one turn of the last loop once the
\* completion event of queue i has been popped.
as_batch_shutdown_destroy(qi) ==
    [qi EXCEPT !.complete = @ - 1, !.exists = FALSE, !.items = <<>>,
               !.busy_destroyed = @ \/ qi.count > 0 \/ qi.items # <<>>]

\* as_batch_find_queue: the nearest queue below queue_index that is active
\* and not full, else the nearest above it, stopping at the first queue
\* that is not active; -1 when there is none.
as_batch_find_queue(q, queue_index, full) ==
    LET below == {i \in DOMAIN q : i < queue_index /\ q[i].active
                                     /\ ~full[i]}
        above == {i \in DOMAIN q :
                     /\ i > queue_index /\ ~full[i]
                     /\ \A j \in DOMAIN q :
                            queue_index < j /\ j <= i => q[j].active}
    IN  IF below # {} THEN CHOOSE i \in below : \A j \in below : j <= i
        ELSE IF above # {}
        THEN CHOOSE i \in above : \A j \in above : i <= j
        ELSE -1

\* as_batch_queue_task, the choice of the queue for a batch whose counter
\* gave queue_index.
as_batch_queue_task_find(q, queue_index, full) ==
    IF q[queue_index].active /\ ~full[queue_index]
    THEN queue_index
    ELSE as_batch_find_queue(q, queue_index, full)

\* A batch request: response_queue tells what shared->response_queue points
\* to: nothing yet ("none"), the queue of slot queue ("queue"), null because
\* the slot had no queue when the pointer was copied, or a queue destroyed
\* since ("freed").
NoTask ==
    [pc |-> "new", queue_index |-> -1, queue |-> -1,
     response_queue |-> "none"]

\* cf_queue_destroy of the queues of slot i, seen from the batches that hold
\* a pointer to them.
as_batch_shutdown_orphan(bt, i) ==
    [t \in Tasks |->
        IF bt[t].queue = i /\ bt[t].response_queue = "queue"
           /\ bt[t].pc = "counted"
        THEN [bt[t] EXCEPT !.response_queue = "freed"]
        ELSE bt[t]]

NoResize ==
    [pc |-> "idle", threads |-> 0, threads_orig |-> 0, i |-> 0,
     status |-> 0, timed_out |-> FALSE]

ResizeInit ==
    /\ batch_queues = [i \in QueueIds |-> as_batch_create_thread_queue(NoQueue)]
    /\ thread_size = MaxBatchThreads
    /\ resize = NoResize
    /\ btask = [t \in Tasks |-> NoTask]

RzInstall(q, ts, r, bt) ==
    /\ batch_queues' = q
    /\ thread_size' = ts
    /\ resize' = r
    /\ btask' = bt
    /\ UNCHANGED <<udfVars, batchVars, fdVars, frameVars, postVars, errVars, prepVars, endVars, findVars, chunkVars>>

\* as_batch_threads_resize up to the call of
\* as_batch_shutdown_thread_queues and its first loop; the other cases
\* return at once.
RzStart ==
    /\ resize.pc = "idle"
    /\ \E threads \in 0..(MaxBatchThreads + 1) :
         LET r == [NoResize EXCEPT !.threads = threads,
                                   !.threads_orig = thread_size]
         IN  IF threads > MaxBatchThreads
             THEN RzInstall(batch_queues, thread_size,
                            [r EXCEPT !.pc = "done", !.status = -1], btask)
             ELSE IF threads = thread_size
             THEN RzInstall(batch_queues, thread_size,
                            [r EXCEPT !.pc = "done"], btask)
             ELSE IF threads > thread_size
             THEN RzInstall(
                      [i \in QueueIds |->
                          IF i \in Surplus(thread_size, threads)
                          THEN as_batch_create_thread_queue(batch_queues[i])
                          ELSE batch_queues[i]],
                      threads, [r EXCEPT !.pc = "done"], btask)
             ELSE RzInstall(
                      as_batch_shutdown_deactivate(batch_queues, threads,
                                                   thread_size),
                      thread_size, [r EXCEPT !.pc = "waiting"], btask)

\* One turn of the wait loop: the queues have drained, or they have not
\* and the 30 seconds are over or not.
RzWait ==
    /\ resize.pc = "waiting"
    /\ IF as_batch_wait(batch_queues, resize.threads, resize.threads_orig)
       THEN RzInstall(batch_queues, thread_size,
                      [resize EXCEPT !.pc = "stopping"], btask)
       ELSE \E timeout \in BOOLEAN :
              IF timeout
              THEN RzInstall(
                       as_batch_shutdown_timeout(batch_queues,
                           resize.threads, resize.threads_orig),
                       thread_size,
                       [resize EXCEPT !.pc = "done", !.status = -1,
                                      !.timed_out = TRUE], btask)
              ELSE RzInstall(batch_queues, thread_size, resize, btask)

RzStop ==
    /\ resize.pc = "stopping"
    /\ RzInstall(as_batch_shutdown_stop(batch_queues, resize.threads,
                                        resize.threads_orig),
                 thread_size,
                 [resize EXCEPT !.pc = "joining", !.i = resize.threads],
                 btask)

\* cf_queue_pop(complete_queue, CF_QUEUE_FOREVER) and the two
\* cf_queue_destroy for queue resize.i; after the last queue,
\* as_thread_pool_resize.
RzJoin ==
    /\ resize.pc = "joining"
    /\ batch_queues[resize.i].complete > 0
    /\ LET q == [batch_queues EXCEPT
                     ![resize.i] = as_batch_shutdown_destroy(@)]
           bt == as_batch_shutdown_orphan(btask, resize.i)
       IN  IF resize.i + 1 < resize.threads_orig
           THEN RzInstall(q, thread_size,
                          [resize EXCEPT !.i = @ + 1], bt)
           ELSE RzInstall(q, resize.threads,
                          [resize EXCEPT !.pc = "done"], bt)

\* as_batch_threads_resize returns and batch_resize_lock is free again.
RzReturn ==
    /\ resize.pc = "done"
    /\ RzInstall(batch_queues, thread_size, NoResize, btask)

\* as_batch_worker of queue i takes the next response: the stop command
\* ends it after one completion notification, a batch's last buffer ends
\* the batch (as_batch_free).
RzWorker(i) ==
    /\ batch_queues[i].worker = "running"
    /\ batch_queues[i].exists
    /\ batch_queues[i].items # <<>>
    /\ LET x == Head(batch_queues[i].items)
           q == [batch_queues[i] EXCEPT !.items = Tail(@)]
       IN  IF x = Stop
           THEN RzInstall([batch_queues EXCEPT ![i] =
                               [q EXCEPT !.worker = "exited",
                                         !.complete = @ + 1]],
                          thread_size, resize, btask)
           ELSE RzInstall([batch_queues EXCEPT ![i] =
                               [q EXCEPT !.count = @ - 1]],
                          thread_size, resize,
                          [btask EXCEPT ![x].pc = "done"])

\* as_batch_queue_task reads the size of the pool and derives the index of
\* the batch's queue from the counter of batches.
RzTaskIndex(t) ==
    /\ btask[t].pc = "new"
    /\ IF thread_size = 0
       THEN RzInstall(batch_queues, thread_size, resize,
                      [btask EXCEPT ![t].pc = "rejected"])
       ELSE \E queue_index \in 0..(thread_size - 1) :
              RzInstall(batch_queues, thread_size, resize,
                        [btask EXCEPT ![t].pc = "indexed",
                                      ![t].queue_index = queue_index])

\* as_batch_queue_task looks for a queue that is active and not full.
RzTaskFind(t) ==
    /\ btask[t].pc = "indexed"
    /\ \E full \in [QueueIds -> BOOLEAN] :
         LET i == as_batch_queue_task_find(batch_queues,
                                           btask[t].queue_index, full)
         IN  RzInstall(batch_queues, thread_size, resize,
                       [btask EXCEPT ![t].pc = IF i = -1 THEN "rejected"
                                               ELSE "found",
                                     ![t].queue = i])

\* cf_atomic32_incr(&batch_queue->count) and shared->response_queue.
RzTaskCount(t) ==
    /\ btask[t].pc = "found"
    /\ RzInstall([batch_queues EXCEPT ![btask[t].queue].count = @ + 1],
                 thread_size, resize,
                 [btask EXCEPT ![t].pc = "counted",
                               ![t].response_queue =
                                   IF batch_queues[btask[t].queue].exists
                                   THEN "queue" ELSE "null"])

\* The batch's last buffer is pushed to shared->response_queue; a push to
\* a null or destroyed queue is recorded and reaches no worker.
RzTaskPush(t) ==
    /\ btask[t].pc = "counted"
    /\ LET i == btask[t].queue
           live == btask[t].response_queue = "queue"
       IN  RzInstall(
               [batch_queues EXCEPT
                    ![i].items = IF live THEN Append(@, t) ELSE @,
                    ![i].dead_push = @ \/ ~live],
               thread_size, resize, [btask EXCEPT ![t].pc = "pushed"])

NextResize ==
    \/ RzStart
    \/ RzWait
    \/ RzStop
    \/ RzJoin
    \/ RzReturn
    \/ \E i \in QueueIds : RzWorker(i)
    \/ \E t \in Tasks : RzTaskIndex(t)
    \/ \E t \in Tasks : RzTaskFind(t)
    \/ \E t \in Tasks : RzTaskCount(t)
    \/ \E t \in Tasks : RzTaskPush(t)

(***************************************************************************)
(* The end of a UDF on the master (transaction/udf.c): udf_finish goes     *)
(* through the records the script worked on, the sub-records first and the *)
(* head record last, and udf_post_processing classifies each, closes it    *)
(* and ships it to XDR.                                                    *)
(***************************************************************************)
Records == 0..NumSubrecords   \* 0 is the head record
OpTypes == {"NONE", "READ", "WRITE", "DELETE"}

\* The flags of a udf_record after the script ran, and bins for
\* as_bin_inuse_has(urecord->rd).
NoRecord ==
    [present |-> FALSE, has_updates |-> FALSE, open |-> FALSE,
     storage_open |-> FALSE, preexists |-> FALSE, is_subrecord |-> FALSE,
     bins |-> FALSE, in_index |-> FALSE, pickled |-> FALSE]

\* The records a script can leave behind: a record that is not open has no
\* storage record to count bins in, and an open record that was not
\* updated has the bins it had before.
UdfRecords(sub) ==
    {[NoRecord EXCEPT !.present = TRUE, !.has_updates = hu, !.open = op,
                      !.storage_open = op, !.preexists = pre,
                      !.is_subrecord = sub, !.bins = b,
                      !.in_index = pre \/ op] :
        hu \in BOOLEAN, op \in BOOLEAN, pre \in BOOLEAN, b \in BOOLEAN}
    \ {u \in [DOMAIN NoRecord -> BOOLEAN] :
          \/ ~u.open /\ u.bins
          \/ u.open /\ ~u.has_updates /\ u.bins # u.preexists}

udf_zero_bins_left(u) == ~u.is_subrecord /\ u.open /\ ~u.bins

\* udf_getop without the test of udf_zero_bins_left.
udf_getop_nopromote(u) ==
    IF u.has_updates
    THEN IF u.open THEN "WRITE"
         ELSE IF u.preexists THEN "DELETE" ELSE "NONE"
    ELSE IF u.preexists /\ ~u.open THEN "DELETE" ELSE "READ"

udf_getop(u) ==
    LET optype == IF u.has_updates
                  THEN IF u.open THEN "WRITE"
                       ELSE IF u.preexists THEN "DELETE" ELSE "NONE"
                  ELSE IF u.preexists /\ ~u.open THEN "DELETE" ELSE "READ"
    IN  IF udf_zero_bins_left(u) THEN "DELETE" ELSE optype

\* udf_record_close: the storage record is closed and the index entry
\* released, which gives up the record lock.
udf_record_close(u) == [u EXCEPT !.open = FALSE, !.storage_open = FALSE]

\* udf_post_processing up to the close: the classification, whether the
\* operation is shipped, and the index and pickle work.
udf_post_processing_classify(u) ==
    LET op == udf_getop(u)
        ship == op \in {"DELETE", "WRITE"}
    IN  IF udf_zero_bins_left(u)
        THEN [u |-> [u EXCEPT !.in_index = FALSE], op |-> "DELETE",
              ship |-> ship]
        ELSE IF op = "WRITE"
        THEN [u |-> [u EXCEPT !.pickled = TRUE], op |-> op, ship |-> ship]
        ELSE [u |-> u, op |-> op, ship |-> ship]

\* The order of the rest with the XDR write ahead of the close.
udf_post_processing_order_shipfirst(pc) ==
    CASE pc = "classify" -> "ship"
      [] pc = "ship" -> "close"
      [] OTHER -> "next"

\* The order of the parts of udf_post_processing.
udf_post_processing_order(pc) ==
    CASE pc = "classify" -> "close"
      [] pc = "close" -> "ship"
      [] OTHER -> "next"

\* The records udf_finish post-processes, in order: the head record alone
\* when it was deleted, else the sub-records and then the head record.
udf_finish_order(recs) ==
    IF udf_getop(recs[0]) = "DELETE" THEN <<0>>
    ELSE LET RECURSIVE subs(_)
             subs(i) == IF i > NumSubrecords THEN <<0>>
                        ELSE IF recs[i].present THEN <<i>> \o subs(i + 1)
                        ELSE subs(i + 1)
         IN  subs(1)

NoFinish ==
    [pc |-> "start", todo |-> <<>>, op |-> "NONE", ship |-> FALSE,
     xdr |-> <<>>, lrecord_op |-> "READ"]

PostIdle ==
    /\ urecord = [r \in Records |-> NoRecord]
    /\ finish = NoFinish

PostInit ==
    /\ urecord \in {f \in [Records -> UdfRecords(TRUE) \cup UdfRecords(FALSE)
                                          \cup {NoRecord}] :
                       /\ f[0] \in UdfRecords(FALSE)
                       /\ \A r \in Records \ {0} :
                              f[r] \in UdfRecords(TRUE) \cup {NoRecord}}
    /\ finish = NoFinish

PostInstall(recs, f) ==
    /\ urecord' = recs
    /\ finish' = f
    /\ UNCHANGED <<udfVars, batchVars, fdVars, frameVars, resizeVars, errVars, prepVars, endVars, findVars, chunkVars>>

\* What comes after part pc of udf_post_processing of the record at the
\* head of todo.
PostAdvance(f, order) ==
    IF order # "next" THEN [f EXCEPT !.pc = order]
    ELSE IF Len(f.todo) > 1
    THEN [f EXCEPT !.pc = "classify", !.todo = Tail(@)]
    ELSE [f EXCEPT !.pc = "done", !.todo = <<>>]

\* udf_finish: the classification of the head record decides what is
\* post-processed.
PostFinish ==
    /\ finish.pc = "start"
    /\ LET h_urecord_op == udf_getop(urecord[0])
       IN  PostInstall(urecord,
               [finish EXCEPT !.pc = "classify",
                              !.todo = udf_finish_order(urecord),
                              !.lrecord_op =
                                  IF h_urecord_op \in {"DELETE", "WRITE"}
                                  THEN h_urecord_op ELSE "READ"])

PostClassify ==
    /\ finish.pc = "classify"
    /\ LET r == Head(finish.todo)
           c == udf_post_processing_classify(urecord[r])
       IN  PostInstall([urecord EXCEPT ![r] = c.u],
               PostAdvance([finish EXCEPT !.op = c.op, !.ship = c.ship],
                           udf_post_processing_order("classify")))

PostClose ==
    /\ finish.pc = "close"
    /\ LET r == Head(finish.todo)
       IN  PostInstall([urecord EXCEPT ![r] = udf_record_close(@)],
               PostAdvance(finish, udf_post_processing_order("close")))

\* xdr_write, for a write or for a delete.
PostShip ==
    /\ finish.pc = "ship"
    /\ LET r == Head(finish.todo)
           f == IF finish.ship /\ finish.op \in {"WRITE", "DELETE"}
                THEN [finish EXCEPT !.xdr =
                          Append(@, [rec |-> r,
                                     is_delete |-> finish.op = "DELETE"])]
                ELSE finish
       IN  PostInstall(urecord,
               PostAdvance(f, udf_post_processing_order("ship")))

NextPost ==
    \/ PostFinish
    \/ PostClassify
    \/ PostClose
    \/ PostShip

(***************************************************************************)
(* The error emitter of the service threads (base/transaction.c):          *)
(* as_transaction_error on a transaction of any origin, which may be       *)
(* called again on a transaction it has already answered.                  *)
(***************************************************************************)
ClosedOrigins ==
    {"FROM_CLIENT", "FROM_PROXY", "FROM_BATCH", "FROM_IUDF", "FROM_NSUP"}

\* tr->origin: the closed set, and a value outside it.
AnyOrigins == ClosedOrigins \cup {"FROM_UNDEF"}

ErrorCodes == {"OK", "UNKNOWN", "TIMEOUT", "PARAMETER", "NOTFOUND"}

\* UPDATE_ERROR_STATS(name): the counter that goes up.
UPDATE_ERROR_STATS(name, ns, error_code) ==
    IF ns
    THEN IF error_code = "TIMEOUT" THEN <<"ns", name, "tsvc_timeout">>
         ELSE <<"ns", name, "tsvc_error">>
    ELSE <<"g_stats", name, "tsvc_error">>

\* What reaches the origin: as_msg_send_reply, as_proxy_send_response,
\* as_batch_add_error or the callback of the internal UDF's job.
Notify(kind, error_code) == [kind |-> kind, code |-> error_code]

\* as_transaction_error without the tests of 'from'.
as_transaction_error_nofromcheck(e, ns, error_code0) ==
    LET error_code == IF error_code0 = "OK" THEN "UNKNOWN" ELSE error_code0
    IN  CASE e.tr.origin = "FROM_CLIENT" ->
               [e EXCEPT !.sent = Append(@, Notify("client_reply", error_code)),
                         !.tr.from = FALSE,
                         !.stats = Append(@, UPDATE_ERROR_STATS("client", ns,
                                                                error_code))]
          [] e.tr.origin = "FROM_PROXY" ->
               [e EXCEPT !.sent = Append(@, Notify("proxy_reply", error_code)),
                         !.tr.from = FALSE]
          [] e.tr.origin = "FROM_BATCH" ->
               [e EXCEPT !.sent = Append(@, Notify("batch_row", error_code)),
                         !.tr.from = FALSE,
                         !.stats = Append(@, UPDATE_ERROR_STATS("batch_sub", ns,
                                                                error_code))]
          [] e.tr.origin = "FROM_IUDF" ->
               [e EXCEPT !.sent = Append(@, Notify("iudf_cb", error_code)),
                         !.tr.from = FALSE,
                         !.stats = Append(@, UPDATE_ERROR_STATS("udf_sub", ns,
                                                                error_code))]
          [] e.tr.origin = "FROM_NSUP" -> e
          [] OTHER -> [e EXCEPT !.crashed = TRUE]

\* as_transaction_error: e is the transaction, what was emitted, the
\* counters that went up and whether cf_crash was called.
as_transaction_error(e, ns, error_code0) ==
    LET error_code == IF error_code0 = "OK" THEN "UNKNOWN" ELSE error_code0
        emit(kind) == IF e.tr.from
                      THEN [e EXCEPT !.sent = Append(@, Notify(kind, error_code)),
                                     !.tr.from = FALSE]
                      ELSE e
    IN  CASE e.tr.origin = "FROM_CLIENT" ->
               [emit("client_reply") EXCEPT
                    !.stats = Append(@, UPDATE_ERROR_STATS("client", ns,
                                                           error_code))]
          [] e.tr.origin = "FROM_PROXY" -> emit("proxy_reply")
          [] e.tr.origin = "FROM_BATCH" ->
               [emit("batch_row") EXCEPT
                    !.stats = Append(@, UPDATE_ERROR_STATS("batch_sub", ns,
                                                           error_code))]
          [] e.tr.origin = "FROM_IUDF" ->
               [emit("iudf_cb") EXCEPT
                    !.stats = Append(@, UPDATE_ERROR_STATS("udf_sub", ns,
                                                           error_code))]
          [] e.tr.origin = "FROM_NSUP" -> e
          [] OTHER -> [e EXCEPT !.crashed = TRUE]

NoOut == [sent |-> <<>>, stats |-> <<>>, crashed |-> FALSE, calls |-> 0]

ErrIdle ==
    /\ etr = [origin |-> "FROM_CLIENT", from |-> TRUE, ns |-> TRUE]
    /\ eout = NoOut

ErrInit ==
    /\ etr \in [origin : AnyOrigins, from : BOOLEAN, ns : BOOLEAN]
    /\ eout = NoOut

ECtx == [tr |-> etr, sent |-> eout.sent, stats |-> eout.stats,
         crashed |-> eout.crashed]

\* A service thread fails the transaction with error_code.
ErrEmit ==
    /\ ~eout.crashed
    /\ eout.calls < MaxCalls
    /\ \E error_code \in ErrorCodes :
         LET g == as_transaction_error(ECtx, etr.ns, error_code)
         IN  /\ etr' = g.tr
             /\ eout' = [sent |-> g.sent, stats |-> g.stats,
                         crashed |-> g.crashed, calls |-> eout.calls + 1]
             /\ UNCHANGED <<udfVars, batchVars, fdVars, frameVars,
                            resizeVars, postVars, prepVars, endVars, findVars, chunkVars>>

NextError == ErrEmit

(***************************************************************************)
(* Validation of a data message (base/transaction.c):                      *)
(* as_transaction_demarshal_prepare walks the fields and the ops of the    *)
(* body of a frame.  Sizes and positions are in bytes; positions count     *)
(* from the start of the body.                                             *)
(***************************************************************************)
sizeof_as_msg_bytes == 22   \* sizeof(as_msg)
sizeof_as_msg_field == 5    \* sizeof(as_msg_field): field_sz and type
sizeof_as_msg_op == 8       \* sizeof(as_msg_op): op_sz and four bytes
sizeof_sz == 4              \* sizeof(field_sz), sizeof(op_sz)
Null == -1                  \* the null pointer

\* The largest body the fields and ops can fill, and one byte more.
MaxMsgSize ==
    sizeof_as_msg_bytes + MaxFields * (sizeof_sz + MaxFieldSz)
        + MaxOps * (sizeof_sz + MaxOpSz) + 1

SeqsUpTo(S, n) == UNION {[1..k -> S] : k \in 0..n}

\* The body of a frame: proto.sz, and the sizes that the n_fields fields
\* and the n_ops ops declare, in the order in which they are met.
DataMessages ==
    [size : (sizeof_as_msg_bytes - 1)..MaxMsgSize,
     fields : SeqsUpTo(0..MaxFieldSz, MaxFields),
     ops : SeqsUpTo(0..MaxOpSz, MaxOps)]

\* as_msg_field_skip (base/proto.h): the position after the field, null
\* for a field whose size does not cover its type byte.
as_msg_field_skip(p_read, field_sz) ==
    IF field_sz = 0 THEN Null ELSE p_read + sizeof_sz + field_sz

\* as_msg_op_skip (base/proto.h): the position after the op, null for an
\* op whose size does not cover the four bytes that follow op_sz.
as_msg_op_skip(p_read, op_sz) ==
    IF op_sz < sizeof_as_msg_op - sizeof_sz THEN Null
    ELSE p_read + sizeof_sz + op_sz

NoPrep ==
    [pc |-> "start", n |-> 0, p_read |-> 0, p_end |-> 0, rv |-> "none",
     read_end |-> 0]

PrepFail(s) == [s EXCEPT !.pc = "done", !.rv = "false"]

\* A read of the bytes from to from + len - 1 of the body.
PrepRead(s, from, len) ==
    [s EXCEPT !.read_end = IF from + len > @ THEN from + len ELSE @]

\* The test of the size and as_msg_swap_header.
as_transaction_demarshal_prepare_header(s, size) ==
    IF size < sizeof_as_msg_bytes
    THEN PrepFail(s)
    ELSE [PrepRead(s, 0, sizeof_as_msg_bytes) EXCEPT
              !.pc = "fields", !.p_end = size,
              !.p_read = sizeof_as_msg_bytes]

\* One turn of the loop over the fields without the test that the header
\* of the field is within the body.
as_transaction_demarshal_prepare_field_nocheck(s, field_sz) ==
    LET r == PrepRead(s, s.p_read, sizeof_as_msg_field)
        p == as_msg_field_skip(s.p_read, field_sz)
    IN  IF p = Null THEN PrepFail(r)
        ELSE IF p > s.p_end THEN PrepFail(r)
        ELSE [r EXCEPT !.p_read = p, !.n = @ + 1]

\* One turn of the loop over the fields; field_sz is what the field at
\* p_read declares.
as_transaction_demarshal_prepare_field(s, field_sz) ==
    IF s.p_read + sizeof_as_msg_field > s.p_end
    THEN PrepFail(s)
    ELSE LET r == PrepRead(s, s.p_read, sizeof_as_msg_field)
             p == as_msg_field_skip(s.p_read, field_sz)
         IN  IF p = Null THEN PrepFail(r)
             ELSE IF p > s.p_end THEN PrepFail(r)
             ELSE [r EXCEPT !.p_read = p, !.n = @ + 1]

\* One turn of the loop over the ops.
as_transaction_demarshal_prepare_op(s, op_sz) ==
    IF s.p_read + sizeof_as_msg_op > s.p_end
    THEN PrepFail(s)
    ELSE LET r == PrepRead(s, s.p_read, sizeof_as_msg_op)
             p == as_msg_op_skip(s.p_read, op_sz)
         IN  IF p = Null THEN PrepFail(r)
             ELSE IF p > s.p_end THEN PrepFail(r)
             ELSE [r EXCEPT !.p_read = p, !.n = @ + 1]

PrepIdle ==
    /\ pmsg = [size |-> sizeof_as_msg_bytes, fields |-> <<>>, ops |-> <<>>]
    /\ prep = NoPrep

PrepInit ==
    /\ pmsg \in DataMessages
    /\ prep = NoPrep

PrepInstall(s) ==
    /\ prep' = s
    /\ UNCHANGED pmsg
    /\ UNCHANGED <<udfVars, batchVars, fdVars, frameVars, resizeVars,
                   postVars, errVars, endVars, findVars, chunkVars>>

PrepHeader ==
    /\ prep.pc = "start"
    /\ PrepInstall(as_transaction_demarshal_prepare_header(prep, pmsg.size))

\* for (n = 0; n < m->n_fields; n++)
PrepField ==
    /\ prep.pc = "fields"
    /\ IF prep.n < Len(pmsg.fields)
       THEN PrepInstall(as_transaction_demarshal_prepare_field(
                            prep, pmsg.fields[prep.n + 1]))
       ELSE PrepInstall([prep EXCEPT !.pc = "ops", !.n = 0])

\* for (n = 0; n < m->n_ops; n++), and the return of true after it.
PrepOp ==
    /\ prep.pc = "ops"
    /\ IF prep.n < Len(pmsg.ops)
       THEN PrepInstall(as_transaction_demarshal_prepare_op(
                            prep, pmsg.ops[prep.n + 1]))
       ELSE PrepInstall([prep EXCEPT !.pc = "done", !.rv = "true"])

NextPrepare ==
    \/ PrepHeader
    \/ PrepField
    \/ PrepOp

(***************************************************************************)
(* The choice of a queue for a new batch (base/batch.c), with the loops    *)
(* of a resize that set the active flags taken one queue at a time: no     *)
(* lock is held by as_batch_queue_task, which can read the flags between   *)
(* any two stores of the resizing thread.                                  *)
(***************************************************************************)
FindIds == 0..(MaxFindThreads - 1)

\* The pool: the active flag of each slot of batch_queues,
\* batch_thread_pool.thread_size, and the resizing thread: the loop it is
\* in and the slots begin..end-1 the loop runs over, i being the next one.
FindIdle ==
    /\ fpool = [active |-> [i \in FindIds |-> TRUE],
                thread_size |-> MaxFindThreads,
                pc |-> "idle", begin |-> 0, end |-> 0, i |-> 0]
    /\ ftask = [pc |-> "new", queue_index |-> 0,
                active |-> [i \in FindIds |-> FALSE],
                full |-> [i \in FindIds |-> FALSE], queue |-> -1]

FindInstall(p, t) ==
    /\ fpool' = p
    /\ ftask' = t
    /\ UNCHANGED <<udfVars, batchVars, fdVars, frameVars, resizeVars,
                   postVars, errVars, prepVars, endVars, chunkVars>>

\* as_batch_threads_resize(threads): upwards the thread pool is resized
\* before the queues are created, downwards after they are shut down.
FindResize ==
    /\ fpool.pc = "idle"
    /\ \E threads \in 0..MaxFindThreads :
         /\ threads # fpool.thread_size
         /\ IF threads > fpool.thread_size
            THEN FindInstall([fpool EXCEPT !.pc = "create",
                                           !.begin = fpool.thread_size,
                                           !.end = threads,
                                           !.i = fpool.thread_size,
                                           !.thread_size = threads],
                             ftask)
            ELSE FindInstall([fpool EXCEPT !.pc = "deactivate",
                                           !.begin = threads,
                                           !.end = fpool.thread_size,
                                           !.i = threads],
                             ftask)

\* One turn of a loop over the slots begin..end-1 that stores flag in the
\* active flag of slot i, and what follows the loop.
FindLoop(pc, flag, next) ==
    /\ fpool.pc = pc
    /\ IF fpool.i < fpool.end
       THEN FindInstall([fpool EXCEPT !.active[fpool.i] = flag,
                                      !.i = @ + 1], ftask)
       ELSE FindInstall([fpool EXCEPT !.pc = next, !.i = fpool.begin],
                        ftask)

\* as_batch_create_thread_queues: work.batch_queue->active = true.
FindCreate == FindLoop("create", TRUE, "idle")

\* as_batch_shutdown_thread_queues: batch_queues[i].active = false.
FindDeactivate == FindLoop("deactivate", FALSE, "wait")

\* as_batch_shutdown_thread_queues: the queues drain, are stopped and
\* destroyed and the thread pool is resized, or the wait times out.
FindWait ==
    /\ fpool.pc = "wait"
    /\ \E timeout \in BOOLEAN :
         IF timeout
         THEN FindInstall([fpool EXCEPT !.pc = "reactivate"], ftask)
         ELSE FindInstall([fpool EXCEPT !.pc = "idle",
                                        !.thread_size = fpool.begin],
                          ftask)

\* as_batch_shutdown_thread_queues: batch_queues[i].active = true.
FindReactivate == FindLoop("reactivate", TRUE, "idle")

\* as_batch_queue_task: queue_index = counter % thread_size.
FindTaskIndex ==
    /\ ftask.pc \in {"new", "found", "rejected"}
    /\ fpool.thread_size > 0
    /\ \E counter \in FindIds :
         FindInstall(fpool,
             [ftask EXCEPT !.pc = "indexed",
                           !.queue_index = counter % fpool.thread_size])

\* as_batch_queue_task looks for a queue; full tells for each slot whether
\* cf_queue_sz(response_queue) has reached batch_max_buffers_per_queue.
FindTaskFind ==
    /\ ftask.pc = "indexed"
    /\ \E full \in [FindIds -> BOOLEAN] :
         LET q == [i \in FindIds |-> [active |-> fpool.active[i]]]
             r == as_batch_queue_task_find(q, ftask.queue_index, full)
         IN  FindInstall(fpool,
                 [ftask EXCEPT !.pc = IF r = -1 THEN "rejected"
                                      ELSE "found",
                               !.active = fpool.active, !.full = full,
                               !.queue = r])

NextFind ==
    \/ FindResize
    \/ FindCreate
    \/ FindDeactivate
    \/ FindWait
    \/ FindReactivate
    \/ FindTaskIndex
    \/ FindTaskFind

(***************************************************************************)
(* Reassembly of a frame from the bytes of a connection                    *)
(* (base/thr_demarshal.c).  The client's stream is followed byte by byte:  *)
(* the byte at position p of the stream of frame bodies has the value p,   *)
(* so that a byte put in the wrong place, lost or read twice shows.        *)
(***************************************************************************)
ChunkFrames == 1..MaxFrames

\* The connection: proto, whether fd_h->proto points to a buffer; sz, the
\* proto.sz of that buffer; data, its body, 0 where nothing was written;
\* proto_unread and trans_active as in the handle; pos, the bytes of
\* bodies read from the socket so far; frame and start, the number of the
\* frame under way and the position of its first body byte; events, the
\* readable events that brought bytes of it; dispatched,
\* the messages handed to the transaction pipeline; closed, the connection
\* was cleaned up.
NoRx ==
    [proto |-> FALSE, sz |-> 0, data |-> <<>>, proto_unread |-> 0,
     trans_active |-> FALSE, pos |-> 0, frame |-> 0, start |-> 0,
     events |-> 0, dispatched |-> <<>>, closed |-> FALSE]

ChunkIdle == rx = NoRx

\* The offset in the body at which the next bytes are put with the whole
\* body still to come, whatever was read before.
thr_demarshal_recv_offset_restart(sz, proto_unread) == 0

\* proto_p->data + (proto_p->sz - fd_h->proto_unread)
thr_demarshal_recv_offset(sz, proto_unread) == sz - proto_unread

\* cf_socket_recv of n > 0 bytes into the body at the offset that follows
\* from proto_unread, and the decrement of proto_unread.
thr_demarshal_recv_body(r, n) ==
    LET off == thr_demarshal_recv_offset(r.sz, r.proto_unread)
    IN  [r EXCEPT !.data = [i \in 1..r.sz |->
                               IF off < i /\ i <= off + n
                               THEN r.pos + (i - off) ELSE r.data[i]],
                  !.pos = @ + n,
                  !.proto_unread = @ - n]

\* The header read: the buffer for the whole frame is allocated and
\* proto_unread set.  In a build with USE_JEM the handler first reads up to
\* 2048 bytes of the body of a data message and copies them to the start of
\* the buffer: peeked is their number, 0 in other builds.
thr_demarshal_recv_header(r, sz, peeked) ==
    LET g == [r EXCEPT !.proto = TRUE, !.sz = sz,
                       !.data = [i \in 1..sz |-> 0],
                       !.proto_unread = sz,
                       !.frame = @ + 1, !.start = r.pos, !.events = 0]
    IN  IF peeked > 0 THEN thr_demarshal_recv_body(g, peeked) ELSE g

\* "Check for a finished read": the frame goes to the transaction pipeline
\* and the handle lets go of the buffer.
thr_demarshal_finished_read(r) ==
    IF r.proto_unread # 0 THEN r
    ELSE [r EXCEPT !.trans_active = TRUE, !.proto = FALSE,
                   !.proto_unread = 0,
                   !.dispatched = Append(@, [frame |-> r.frame,
                                             start |-> r.start,
                                             sz |-> r.sz,
                                             events |-> r.events,
                                             data |-> r.data])]

\* NextEvent_FD_Cleanup, as far as the buffer goes.
thr_demarshal_cleanup(r) ==
    [r EXCEPT !.closed = TRUE, !.proto = FALSE]

\* The handler of a readable event from "if (fd_h->proto_unread > 0)":
\* n is what cf_socket_recv returns (0 standing for no byte read), eagain
\* whether errno is EAGAIN then.
thr_demarshal_read_body(r, n, eagain) ==
    IF r.proto_unread > 0
    THEN IF n = 0
         THEN IF eagain THEN r ELSE thr_demarshal_cleanup(r)
         ELSE thr_demarshal_finished_read(thr_demarshal_recv_body(r, n))
    ELSE thr_demarshal_finished_read(r)

\* What a recv of at most max bytes can return.
ChunkReads(max) ==
    [n : 1..max, eagain : {FALSE}] \cup [n : {0}, eagain : BOOLEAN]

ChunkInstall(r) ==
    /\ rx' = [r EXCEPT !.dispatched =
                  IF Len(@) > Len(rx.dispatched)
                  THEN [@ EXCEPT ![Len(@)].events =
                            r.events + (IF r.pos > rx.pos THEN 1 ELSE 0)]
                  ELSE @,
                       !.events = @ + (IF r.pos > rx.pos THEN 1 ELSE 0)]
    /\ UNCHANGED <<udfVars, batchVars, fdVars, frameVars, resizeVars,
                   postVars, errVars, prepVars, endVars, findVars>>

ChunkLive == ~rx.closed /\ ~rx.trans_active

\* A readable event with no frame under way: the header has come whole.
ChunkHeader ==
    /\ ChunkLive
    /\ ~rx.proto
    /\ rx.frame < MaxFrames
    /\ \E sz \in 0..MaxChunkBody :
         \E peeked \in 0..sz :
           LET g == thr_demarshal_recv_header(rx, sz, peeked)
           IN  \E b \in ChunkReads(IF g.proto_unread > 0
                                   THEN g.proto_unread ELSE 1) :
                 ChunkInstall(thr_demarshal_read_body(g, b.n, b.eagain))

\* A readable event with a frame under way.
ChunkBody ==
    /\ ChunkLive
    /\ rx.proto
    /\ \E b \in ChunkReads(rx.proto_unread) :
         ChunkInstall(thr_demarshal_read_body(rx, b.n, b.eagain))

\* The transaction of the dispatched frame ends: thr_demarshal_resume.
ChunkResume ==
    /\ ~rx.closed
    /\ rx.trans_active
    /\ ChunkInstall([rx EXCEPT !.trans_active = FALSE])

NextChunk ==
    \/ ChunkHeader
    \/ ChunkBody
    \/ ChunkResume

(***************************************************************************)
(* Specifications: one subsystem runs, the others stay as constructed.     *)
(***************************************************************************)
UdfIdle ==
    /\ utr = [t \in Trans |-> NewTr("FROM_CLIENT", 1)]
    /\ urw = [t \in Trans |-> NoRw]
    /\ upc = [t \in Trans |-> "queued"]
    /\ ustatus = [t \in Trans |-> "NONE"]
    /\ ulog = [t \in Trans |-> <<>>]
    /\ urwstat = [t \in Trans |-> NoStat(utr[t].origin)]

InitUdf == UdfInit /\ BatchInit /\ FdInit /\ FrameInit /\ ResizeInit /\ PostIdle /\ ErrIdle /\ PrepIdle /\ EndIdle /\ FindIdle /\ ChunkIdle
InitBatch == UdfIdle /\ BatchInit /\ FdInit /\ FrameInit /\ ResizeInit /\ PostIdle /\ ErrIdle /\ PrepIdle /\ EndIdle /\ FindIdle /\ ChunkIdle
InitFd == UdfIdle /\ BatchInit /\ FdInit /\ FrameInit /\ ResizeInit /\ PostIdle /\ ErrIdle /\ PrepIdle /\ EndIdle /\ FindIdle /\ ChunkIdle
InitFrame == UdfIdle /\ BatchInit /\ FdInit /\ FrameInit /\ ResizeInit /\ PostIdle /\ ErrIdle /\ PrepIdle /\ EndIdle /\ FindIdle /\ ChunkIdle
InitResize == UdfIdle /\ BatchInit /\ FdInit /\ FrameInit /\ ResizeInit /\ PostIdle /\ ErrIdle /\ PrepIdle /\ EndIdle /\ FindIdle /\ ChunkIdle
InitPost == UdfIdle /\ BatchInit /\ FdInit /\ FrameInit /\ ResizeInit /\ PostInit /\ ErrIdle /\ PrepIdle /\ EndIdle /\ FindIdle /\ ChunkIdle
InitError == UdfIdle /\ BatchInit /\ FdInit /\ FrameInit /\ ResizeInit /\ PostIdle /\ ErrInit /\ PrepIdle /\ EndIdle /\ FindIdle /\ ChunkIdle
InitPrepare == UdfIdle /\ BatchInit /\ FdInit /\ FrameInit /\ ResizeInit /\ PostIdle /\ ErrIdle /\ PrepInit /\ EndIdle /\ FindIdle /\ ChunkIdle
InitEnd == UdfIdle /\ BatchInit /\ FdInit /\ FrameInit /\ ResizeInit /\ PostIdle /\ ErrIdle /\ PrepIdle /\ EndIdle /\ FindIdle /\ ChunkIdle
InitFind == UdfIdle /\ BatchInit /\ FdInit /\ FrameInit /\ ResizeInit /\ PostIdle /\ ErrIdle /\ PrepIdle /\ EndIdle /\ FindIdle /\ ChunkIdle
InitChunk == UdfIdle /\ BatchInit /\ FdInit /\ FrameInit /\ ResizeInit /\ PostIdle /\ ErrIdle /\ PrepIdle /\ EndIdle /\ FindIdle /\ ChunkIdle

SpecUdf == InitUdf /\ [][NextUdf]_vars
SpecBatch == InitBatch /\ [][NextBatch]_vars
SpecBatchLive == InitBatch /\ [][NextBatch]_vars /\ BatchFairness
SpecFd == InitFd /\ [][NextFd]_vars
SpecFrame == InitFrame /\ [][NextFrame]_vars
SpecAccept == InitFd /\ [][NextAccept]_vars
SpecResize == InitResize /\ [][NextResize]_vars
SpecPost == InitPost /\ [][NextPost]_vars
SpecError == InitError /\ [][NextError]_vars
SpecPrepare == InitPrepare /\ [][NextPrepare]_vars
SpecEnd == InitEnd /\ [][NextEnd]_vars
SpecFind == InitFind /\ [][NextFind]_vars
SpecChunk == InitChunk /\ [][NextChunk]_vars

(***************************************************************************)
(* Properties of the UDF pipeline.                                         *)
(***************************************************************************)
CountEv(log, S) == Cardinality({i \in DOMAIN log : log[i].ev \in S})
HasEv(log, e) == \E i \in DOMAIN log : log[i].ev = e

\* Responses emitted to the origin of request t: replies to the client or
\* the proxying node, invocations of the internal-UDF callback.
Responses(t) == CountEv(ulog[t], {"reply", "iudf_cb"})

\* What the timeout does to an origin it has taken that is not a response.
TimeoutActs(t) == CountEv(ulog[t], {"force_close", "proxy_timeout"})

\* C1 as stated: every UDF transaction that as_udf_start processed and did
\* not leave WAITING has, once it is over, emitted exactly one response to
\* its origin, also when it ended in an error or by timeout.
C1_ExactlyOneResponse ==
    \A t \in Trans : upc[t] = "done" => Responses(t) = 1

\* C1 amended: a UDF transaction never emits more than one response; once it
\* is over it has emitted exactly one, unless the timeout took the origin of
\* a client or proxy transaction first, in which case it has emitted none
\* (the client's connection is force-closed, the proxying node gets nothing).
\* An internal-UDF transaction that times out has its callback invoked once.
C1_OneResponseUnlessTimeout ==
    \A t \in Trans :
        /\ Responses(t) <= 1
        /\ TimeoutActs(t) > 0 => utr[t].origin # "FROM_IUDF"
        /\ upc[t] = "done" =>
              IF TimeoutActs(t) > 0 THEN Responses(t) = 0 ELSE Responses(t) = 1

C1_Witness ==
    /\ \E t \in Trans : /\ upc[t] = "done"
                        /\ HasEv(ulog[t], "force_close")
                        /\ Responses(t) = 0
    /\ \E t \in Trans : /\ upc[t] = "done"
                        /\ \E i \in DOMAIN ulog[t] :
                              ulog[t][i].ev \in {"reply", "iudf_cb"} /\ ulog[t][i].rc # "OK"

\* C2: for a transaction held in a rw_request, of natural completion and
\* timeout exactly one acts on the origin: while rw->from.any is set nothing
\* has acted, at most one action on the origin ever happens, and when the
\* rw_request is finished exactly one has.
C2_OneOfCompletionOrTimeout ==
    \A t \in Trans : urw[t].set_up =>
        /\ Responses(t) + TimeoutActs(t) <= 1
        /\ urw[t].from => Responses(t) + TimeoutActs(t) = 0
        /\ upc[t] = "done" => Responses(t) + TimeoutActs(t) = 1

\* Both orders of the race: a timeout that ran after the completion replied,
\* and an ack handled after the timeout took the origin.
C2_Witness ==
    /\ \E t \in Trans : urw[t].timed_out /\ Responses(t) = 1 /\ TimeoutActs(t) = 0
                        /\ HasEv(ulog[t], "send_dup")
    /\ \E t \in Trans : urw[t].timed_out /\ urw[t].phase = "done"
                        /\ \E i \in DOMAIN ulog[t] : ulog[t][i].rc = "TIMEOUT"

\* C3: when respond-on-master-complete applies to a client UDF write whose
\* replica writes have been sent, the one reply to the client comes after
\* master-apply and before the replica-write messages, and nothing after it
\* replies again or closes the client's connection.
C3_RespondOnMasterComplete ==
    \A t \in Trans :
        (urw[t].respond /\ HasEv(ulog[t], "send_repl")) =>
            /\ \E i, j, k \in DOMAIN ulog[t] :
                  /\ i < j /\ j < k
                  /\ ulog[t][i].ev = "master"
                  /\ ulog[t][j].ev = "reply"
                  /\ ulog[t][k].ev = "send_repl"
            /\ Responses(t) = 1
            /\ TimeoutActs(t) = 0

\* The replica-write callback and the timeout have both run after the reply,
\* with and without a dup-res phase.
C3_Witness ==
    \E t1, t2 \in Trans :
        /\ \A t \in {t1, t2} :
              /\ urw[t].respond /\ HasEv(ulog[t], "send_repl")
              /\ urw[t].phase = "done" /\ urw[t].timed_out
        /\ HasEv(ulog[t1], "send_dup")
        /\ ~HasEv(ulog[t2], "send_dup")

\* C9: the request hash holds at most one rw_request per key; a request
\* that found its key busy is not inserted and the rw_request created for
\* the attempt is released.
C9_OnePerKey ==
    /\ \A t1, t2 \in Trans :
          (t1 # t2 /\ urw[t1].state = "in_hash" /\ urw[t2].state = "in_hash")
              => utr[t1].key # utr[t2].key
    /\ \A t \in Trans :
          /\ urwstat[t].live = (IF urw[t].state = "in_hash" THEN 1 ELSE 0)
          /\ ustatus[t] = "TRANS_WAITING" =>
                urw[t].state = "released" /\ urwstat[t].live = 0

C9_Witness ==
    \E t1, t2 \in Trans :
        /\ t1 # t2 /\ utr[t1].key = utr[t2].key
        /\ urw[t1].state = "in_hash"
        /\ upc[t2] = "waiting" /\ ustatus[t2] = "TRANS_WAITING"

(***************************************************************************)
(* Properties of the batch-index response pipeline.                        *)
(***************************************************************************)
BufferIds == DOMAIN bbuf

\* The batch was accepted, and its shared state has been freed.
Accepted == bdisp.pc \notin {"new", "rejected"}
Freed == bsh.freed > 0

\* C4: every response buffer is pushed to the response queue exactly once,
\* when its writers count goes to zero (so it is never pushed while a writer
\* holds it, and is pushed as soon as none does); a pushed buffer is not
\* reserved in or written to, and every sub-transaction still at work holds
\* buffers that have not been pushed.
C4_PushedOnceAtZeroWriters ==
    /\ \A id \in BufferIds :
          /\ bbuf[id].writers >= 0
          /\ bbuf[id].pushes = (IF bbuf[id].writers = 0 THEN 1 ELSE 0)
          /\ ~bbuf[id].dirty
    /\ \A r \in Rows :
          /\ brow[r].pc \in {"prev", "rc", "end1", "end2"} => bbuf[brow[r].buffer].pushes = 0
          /\ brow[r].pc = "prev" => bbuf[brow[r].prev].pushes = 0
    /\ bdisp.pc \in {"term_end1", "term_end2"} => bbuf[bdisp.buffer].pushes = 0
    /\ Freed => \A id \in BufferIds : bbuf[id].pushes = 1

\* A row did not fit in the current buffer: it replaced it and completed it,
\* which pushed it with the earlier row's response in it, and is now about
\* to write to its own buffer.
C4_Witness ==
    \E r \in Rows :
        /\ brow[r].pc = "end1"
        /\ brow[r].prev # 0
        /\ bbuf[brow[r].prev].pushes = 1
        /\ bbuf[brow[r].prev].rows # {}
        /\ bbuf[brow[r].buffer].writers = 2

\* C5: the shared state is freed exactly once, exactly when the worker's
\* tran_count_response has reached tran_max; no thread uses it afterwards:
\* no use after the free is recorded, and when it is freed no row's
\* sub-transaction and no step of the dispatching thread is still to come.
C5_FreedOnceWhenAllCounted ==
    /\ bsh.freed <= 1
    /\ Accepted => (Freed <=> bsh.tran_count_response = bsh.tran_max)
    /\ ~Accepted => ~Freed
    /\ ~buaf
    /\ Freed => /\ bdisp.pc = "done"
                /\ \A r \in Rows : brow[r].pc \in {"idle", "done"}
                /\ bqueue = <<>>

\* A batch of the largest size, all rows dispatched, is over.
C5_Witness ==
    /\ Freed
    /\ bsh.tran_max = MaxRows
    /\ \A r \in Rows : brow[r].pc = "done"
    /\ Len(bbuf) >= 2

RECURSIVE SumTranCount(_)
SumTranCount(n) == IF n = 0 THEN 0 ELSE bbuf[n].tran_count + SumTranCount(n - 1)

\* C6: the tran_count of the buffers created for a batch add up to the
\* number of rows the shared state has counted, and so, when the shared
\* state is freed, to tran_max.
C6_TranCountsAddUp ==
    /\ SumTranCount(Len(bbuf)) = bsh.tran_count
    /\ Freed => SumTranCount(Len(bbuf)) = bsh.tran_max

\* A batch is over that had a zero-capacity error buffer and phantom rows
\* from the terminate path.
C6_Witness ==
    /\ Freed
    /\ bdisp.tran_row < bsh.tran_max
    /\ \E id \in BufferIds : bbuf[id].capacity = 0
    /\ \E id \in BufferIds : bbuf[id].tran_count > 1

Messages(kind) == {i \in DOMAIN bsent : bsent[i].kind = kind}
SentRows == UNION {bsent[i].rows : i \in DOMAIN bsent}
SendFailed == Messages("force_close") # {}

\* C7 as stated, in the case most favourable to it (all rows dispatched, no
\* buffer pop failed): a finished batch without send failure has sent every
\* row's response and then one trailer, whatever the rows' result codes.
C7_EveryRowSent ==
    (Freed /\ ~SendFailed /\ bdisp.tran_row = bsh.tran_max
       /\ \A id \in BufferIds : bbuf[id].capacity # 0)
    => /\ SentRows = 1..bsh.tran_max
       /\ Cardinality(Messages("trailer")) = 1

\* C7 amended: a finished batch without send failure has sent exactly one
\* trailer, after all row responses, carrying the batch's result code; no
\* row's response is sent twice; and if the batch's result code is OK (every
\* row ended OK or NOTFOUND, all rows were dispatched, no buffer pop failed)
\* the response of each of the N rows was sent.
C7_RowsSentUnlessError ==
    (Freed /\ ~SendFailed)
    => /\ Cardinality(Messages("trailer")) = 1
       /\ \A i \in Messages("trailer") :
             /\ bsent[i].rc = bsh.result_code
             /\ \A j \in Messages("buffer") : j < i
       /\ \A i, j \in Messages("buffer") : i # j => bsent[i].rows \cap bsent[j].rows = {}
       /\ SentRows \subseteq 1..bsh.tran_max
       /\ bsh.result_code = "OK" => SentRows = 1..bsh.tran_max

\* A batch of the largest size is over, all its rows sent in more than one
\* buffer and then the trailer.
C7_Witness ==
    /\ Freed /\ ~SendFailed
    /\ bsh.tran_max = MaxRows
    /\ bsh.result_code = "OK"
    /\ Cardinality(Messages("buffer")) >= 2
    /\ SentRows = 1..MaxRows

\* The dispatcher left the loop before the last row and ran
\* as_batch_terminate; nothing of the batch is left to run.
Terminated == Accepted /\ bdisp.pc = "done" /\ bdisp.tran_row < bsh.tran_max
Quiescent ==
    /\ bdisp.pc \in {"done", "rejected"}
    /\ \A r \in Rows : brow[r].pc \in {"idle", "done"}
    /\ bqueue = <<>>

\* C11 as stated, in the case most favourable to it (no send and no buffer
\* pop failed): when only k < N rows were dispatched, once they have
\* responded tran_count_response is N, every buffer was enqueued once, the
\* shared state is freed once and one trailer went out, carrying PARAMETER.
C11_TrailerIsParameter ==
    (Terminated /\ Quiescent /\ ~SendFailed
       /\ \A id \in BufferIds : bbuf[id].capacity # 0)
    => /\ bsh.tran_count_response = bsh.tran_max
       /\ \A id \in BufferIds : bbuf[id].pushes = 1
       /\ bsh.freed = 1
       /\ Cardinality(Messages("trailer")) = 1
       /\ \A i \in Messages("trailer") : bsent[i].rc = "PARAMETER"

\* C11 amended: when only k < N rows were dispatched, once they have
\* responded tran_count and tran_count_response are N, every buffer was
\* enqueued once and given back, the shared state is freed once, and the
\* connection got either one trailer or, after a failed send, one forced
\* close; the trailer carries an error code: PARAMETER, or the code a
\* dispatched row stored after the terminate, or UNKNOWN from a failed
\* buffer pop.
C11_TerminateBalances ==
    (Terminated /\ Quiescent)
    => /\ bsh.tran_count = bsh.tran_max
       /\ bsh.tran_count_response = bsh.tran_max
       /\ \A id \in BufferIds : bbuf[id].pushes = 1 /\ bbuf[id].released
       /\ bsh.freed = 1
       /\ Cardinality(Messages("trailer")) + Cardinality(Messages("force_close")) = 1
       /\ \A i \in Messages("trailer") :
             /\ bsent[i].rc \in {"PARAMETER", "TIMEOUT", "RECORD_TOO_BIG", "UNKNOWN"}
             /\ bsent[i].rc = "UNKNOWN" => \E id \in BufferIds : bbuf[id].capacity = 0

\* A batch is over of which one row was dispatched and responded and the
\* other was accounted as a phantom; its trailer carries PARAMETER.
C11_Witness ==
    /\ Terminated /\ Quiescent /\ Freed
    /\ bdisp.tran_row >= 1
    /\ brow[1].pc = "done"
    /\ \E i \in Messages("trailer") : bsent[i].rc = "PARAMETER"

\* C12: if the send of a buffer of a batch fails, the connection is
\* force-closed once, nothing of the batch is written to the socket
\* afterwards (no buffer, no trailer) and the connection is not ended a
\* second time; the accounting still completes: once the rows have
\* responded every buffer was dequeued and given back and the shared state
\* was freed, with tran_count_response at tran_max.
C12_SendFailureDropsRest ==
    /\ Cardinality(Messages("force_close")) + Cardinality(Messages("end")) <= 1
    /\ \A i \in Messages("force_close") : i = Len(bsent)
    /\ SendFailed => ~bsh.fd
    /\ (Accepted /\ SendFailed /\ Quiescent)
       => /\ bsh.freed = 1
          /\ bsh.tran_count_response = bsh.tran_max
          /\ \A id \in BufferIds : bbuf[id].pushes = 1 /\ bbuf[id].released

\* A batch without error is over whose first buffer could not be sent: the
\* connection was force-closed, the second buffer and the trailer were not
\* written, and everything was given back.
C12_Witness ==
    /\ Freed /\ Quiescent
    /\ bsh.result_code = "OK"
    /\ Len(bbuf) >= 2
    /\ bsent = <<Sent("force_close", {}, "-")>>
    /\ \A id \in BufferIds : bbuf[id].released /\ bbuf[id].rows # {}

\* C13 as stated: once the batch-wide result_code holds an error it is
\* never changed.
C13_FirstErrorSticks ==
    [][bsh.result_code # "OK" => bsh'.result_code = bsh.result_code]_vars

\* C13 amended: once the batch-wide result_code holds an error it holds an
\* error for good, but not always the first one: a later error replaces it.
C13_ErrorStaysError ==
    [][bsh.result_code # "OK" => bsh'.result_code # "OK"]_vars

\* The UNKNOWN stored by a failed buffer pop has been replaced by the
\* TIMEOUT of a row.
C13_Witness ==
    /\ \E id \in BufferIds : bbuf[id].capacity = 0
    /\ bsh.result_code = "TIMEOUT"

\* A step of a row that ended in an error, of the terminate path, or a
\* failed buffer pop: the steps that store a batch-wide result code.
ErrorStep ==
    \/ \E r \in Rows : /\ brow[r].pc = "rc"
                       /\ brow[r].rc \notin {"OK", "NOTFOUND"}
                       /\ bsh'.result_code = brow[r].rc
    \/ bdisp.pc = "rows" /\ bdisp'.pc = "term_end1"
    \/ Len(bbuf') > Len(bbuf) /\ bbuf'[Len(bbuf')].capacity = 0

Rejected == bdisp.pc = "rejected"
RejectReply(code) ==
    <<[kind |-> "trailer", rows |-> {}, rc |-> code, info3 |-> "AS_MSG_INFO3_LAST"],
      [kind |-> "end", rows |-> {}, rc |-> "-", info3 |-> "0"]>>

\* The code that goes with each reason the claim names.
RejectCodeOf(in) ==
    IF ~in.threads_ok THEN "BATCH_DISABLED"
    ELSE IF ~in.fields_ok \/ in.tran_count = 0 THEN "PARAMETER"
    ELSE IF in.tran_count > MaxRows THEN "BATCH_MAX_REQUESTS"
    ELSE IF ~in.queue_ok THEN "BATCH_QUEUES_FULL"
    ELSE "-"

\* C15 as stated, in the case most favourable to it (the reply can be
\* sent): a rejected batch has created no shared state and no
\* sub-transaction, and the client got one LAST-flagged reply with the code
\* of the reason, the connection being ended once.
C15_RejectedBeforeShared ==
    (Rejected /\ ~SendFailed /\ RejectCodeOf(bdisp.task) # "-")
    => /\ bdisp.shared = "none"
       /\ bsh = NoShared /\ bbuf = <<>>
       /\ \A r \in Rows : brow[r].pc = "idle"
       /\ bsent = RejectReply(RejectCodeOf(bdisp.task))

\* C15 amended: a rejected batch has no sub-transaction and leaves no
\* shared state: none was allocated, except that the one allocated before
\* the search for a queue is freed again when no queue takes the batch;
\* the connection is ended exactly once, after one LAST-flagged reply with
\* the code of the reason, or by a forced close if that reply cannot be
\* sent.
C15_RejectedLeavesNothing ==
    (Rejected /\ RejectCodeOf(bdisp.task) # "-")
    => /\ bdisp.shared = (IF bdisp.task.queue_ok THEN "none" ELSE "freed")
       /\ bsh = NoShared /\ bbuf = <<>>
       /\ \A r \in Rows : brow[r].pc = "idle"
       /\ \/ bsent = RejectReply(RejectCodeOf(bdisp.task))
          \/ bsent = <<[kind |-> "force_close", rows |-> {}, rc |-> "-",
                        info3 |-> "0"]>>

\* A batch that no queue took has been rejected: its shared state was
\* freed again and the client was told BATCH_QUEUES_FULL.
C15_Witness ==
    /\ Rejected
    /\ ~bdisp.task.queue_ok
    /\ bdisp.shared = "freed"
    /\ bsent = RejectReply("BATCH_QUEUES_FULL")

(***************************************************************************)
(* Properties of the connection reactor and the file-handle registry.      *)
(***************************************************************************)
\* The references the code holds on a handle: the table's, the poll
\* set's, and one for each transaction that has not finished
\* as_end_of_transaction.
Holders(f) == Bit(f.in_table) + Bit(f.in_poll) + f.txn + f.ending

\* The close operation ran once, by the release that took the count from 1
\* to 0, and only then; nothing touched the handle's memory afterwards.
ClosedOnceAtZero ==
    \A c \in Conns :
        LET f == fd_h[c] IN
        /\ f.n_close <= 1
        /\ ~f.uaf
        /\ f.st = "live" => f.rc = Holders(f) /\ f.rc >= 1 /\ f.n_close = 0
        /\ f.n_close = 1 =>
               /\ f.st = "freed" /\ f.rc = 0 /\ Holders(f) = 0
               /\ f.sock = "closed" /\ f.counted = 1

\* C8: for every connection handle, whatever the interleaving of the
\* reactor's cleanup, the reaper and the ends of transactions, the close
\* operation (socket closed, partial-frame buffer freed, handle freed,
\* closed-connection counter incremented) runs exactly once, when the
\* reference count goes from 1 to 0, and the handle is not used afterwards.
C8_CloseOnceComplete ==
    /\ ClosedOnceAtZero
    /\ \A c \in Conns : fd_h[c].n_close = 1 => fd_h[c].proto = NoProto

\* C10: at most one transaction of a connection is in flight; from the
\* dispatch of a frame (trans_active set) until as_end_of_transaction is
\* called for it the reactor reads nothing from the connection and
\* dispatches nothing from it.
C10_OneTransactionInFlight ==
    \A c \in Conns :
        /\ fd_h[c].txn <= 1
        /\ fd_h[c].txn = 1 /\ fd_h[c].st = "live" => fd_h[c].trans_active
        /\ ~fd_h[c].rd

\* A second frame of a connection has been dispatched after the first
\* one's transaction called as_end_of_transaction, while that call has
\* not yet released its reference.
C10_Witness ==
    \E c \in Conns :
        /\ fd_h[c].txn = 1 /\ fd_h[c].ending = 1
        /\ fd_h[c].trans_active /\ fd_h[c].in_poll

(***************************************************************************)
(* Properties of the frames of one connection.                             *)
(***************************************************************************)
\* The reactor is about to read the header of a frame from the connection.
AwaitsHeader ==
    /\ conn.st = "live" /\ conn.in_poll
    /\ ~conn.trans_active /\ conn.proto = NoProto

DataHeader(sz) ==
    [rv |-> "ok", version |-> "PROTO_VERSION", type |-> "PROTO_TYPE_AS_MSG",
     sz |-> sz]

\* The step logs the warning that a frame is larger than PROTO_SIZE_MAX.
RejectsTooBig == ~conn.too_big /\ conn'.too_big

\* C16: a frame that declares PROTO_SIZE_MAX bytes of body is accepted: its
\* buffer is allocated with the whole body to read, and once the body is
\* read the frame is dispatched.  A frame that declares one more byte is
\* rejected: no buffer is ever allocated for more than PROTO_SIZE_MAX bytes,
\* and the step that rejects the frame allocates nothing, dispatches no
\* transaction, writes no reply, takes the connection out of the poll set
\* and drops the poll set's reference, which closes the socket when it is
\* the last one and otherwise leaves the handle marked for the reaper.
C16_SizeCapAcceptsAndRejects ==
    /\ [](AwaitsHeader =>
            LET f == thr_demarshal_event(conn, DataHeader(MaxBody),
                         [n |-> 0, errno |-> "EAGAIN"], DefaultDispatch)
                g == thr_demarshal_event(conn, DataHeader(MaxBody),
                         [n |-> MaxBody, errno |-> "none"], DefaultDispatch)
            IN  /\ f.proto.sz = MaxBody /\ f.proto_unread = MaxBody
                /\ f.in_poll /\ ~f.too_big /\ f.sock = conn.sock
                /\ g.txn = conn.txn + 1 /\ g.in_poll /\ ~g.too_big
                /\ g.replies = conn.replies)
    /\ [](conn.proto.sz <= MaxBody /\ conn.proto_unread <= MaxBody)
    /\ [][RejectsTooBig =>
            /\ conn'.proto = NoProto /\ conn'.proto_unread = 0
            /\ conn'.txn = conn.txn /\ conn'.ending = conn.ending
            /\ conn'.replies = conn.replies
            /\ ~conn'.in_poll
            /\ conn'.rc = conn.rc - 1
            /\ IF conn'.rc = 0
               THEN conn'.sock = "closed" /\ conn'.n_close = 1
               ELSE conn'.reap_me]_vars
    /\ [](conn.too_big /\ Holders(conn) = 0 => conn.sock = "closed")

\* A frame over the cap was rejected and the connection is closed.
C16_Witness ==
    /\ conn.too_big /\ ~conn.in_poll /\ conn.sock = "closed"
    /\ conn.replies = <<>> /\ conn.txn = 0

\* C17: the step that rejects a frame declaring more than PROTO_SIZE_MAX
\* bytes adds exactly one to the demarshal-error counter, writes no reply
\* and takes the connection out of the poll set.
C17_TooBigCountsDemarshalError ==
    [][RejectsTooBig =>
          /\ n_demarshal_error' = n_demarshal_error + 1
          /\ conn'.replies = conn.replies
          /\ ~conn'.in_poll]_vars

\* C18: a data frame that declares a body of size 0 is rejected as too
\* small: no byte beyond the frame's buffer is ever read as message content,
\* and no such frame reaches the batch engine.
C18_ZeroSizeNeverInterpreted == conn.oob = "none"

\* Complete frames that end in a demarshal error: a frame of a type that is
\* not valid, with the code UNKNOWN, and a data frame that
\* as_transaction_demarshal_prepare refuses, with the code PARAMETER.
ErrorFrames ==
    {[h |-> [rv |-> "ok", version |-> "PROTO_VERSION",
             type |-> "PROTO_TYPE_MAX", sz |-> sz],
      wellformed |-> TRUE, code |-> "UNKNOWN"] : sz \in 0..MaxBody}
        \cup
    {[h |-> DataHeader(sz), wellformed |-> FALSE, code |-> "PARAMETER"] :
         sz \in 0..MaxBody}

\* The handle after the reactor has received error frame e whole in one
\* event, the error reply being written (sent) or failing.
AfterErrorFrame(e, sent) ==
    thr_demarshal_event(conn, e.h,
        IF e.h.sz = 0 THEN [n |-> 0, errno |-> "EAGAIN"]
        ELSE [n |-> e.h.sz, errno |-> "none"],
        [DefaultDispatch EXCEPT !.wellformed = e.wellformed,
                                !.sent = sent])

\* What every demarshal error does, whether or not the reply goes out.
ErrorFrameHandled(e, g) ==
    /\ g.tr = [from |-> "NULL", msgp |-> "NULL", n_free |-> 1]
    /\ g.demarshal_error = conn.demarshal_error + 1
    /\ g.proto = NoProto /\ g.proto_unread = 0
    /\ g.txn = conn.txn /\ g.ending = conn.ending /\ g.rc = conn.rc
    /\ g.in_poll /\ ~g.trans_active /\ g.st = "live"

\* C19 as stated: for every frame of an invalid type and every malformed
\* data frame the client gets one error reply with the code, the buffer is
\* freed once, the origin is cleared, the counter goes up by one, and the
\* connection stays open and in the poll set.
C19_ErrorReplyKeepsConnection ==
    AwaitsHeader =>
        \A e \in ErrorFrames, sent \in BOOLEAN :
            LET g == AfterErrorFrame(e, sent)
            IN  /\ ErrorFrameHandled(e, g)
                /\ g.replies = Append(conn.replies, e.code)
                /\ g.sock = conn.sock

\* C19, amended: the buffer is freed once, the origin is cleared, the
\* counter goes up by one and the connection stays in the poll set in
\* every case; when the reply can be written the client gets exactly that
\* one reply and the socket is left as it was; when the write fails the
\* client gets no reply and the socket is shut down.
C19_ErrorReplyOrForcedClose ==
    AwaitsHeader =>
        \A e \in ErrorFrames, sent \in BOOLEAN :
            LET g == AfterErrorFrame(e, sent)
            IN  /\ ErrorFrameHandled(e, g)
                /\ IF sent
                   THEN /\ g.replies = Append(conn.replies, e.code)
                        /\ g.sock = conn.sock
                   ELSE /\ g.replies = conn.replies
                        /\ g.sock = "shutdown"

\* A frame of an invalid type and a malformed data frame were both
\* answered, and the connection is open and waits for the next frame.
C19_Witness ==
    /\ AwaitsHeader /\ conn.sock = "open"
    /\ conn.replies = <<"UNKNOWN", "PARAMETER">>
    /\ n_demarshal_error = 2
    /\ conn.tr = [from |-> "NULL", msgp |-> "NULL", n_free |-> 1]

(***************************************************************************)
(* Properties of the listener.                                             *)
(***************************************************************************)
\* The connections that came in on listener l, were counted as opened and
\* are not closed.
OpenConns(l) ==
    {c \in AllConns : fd_h[c].listener = l /\ fd_h[c].st = "live"}

\* C20: the connections from the service listener that are open never
\* number more than proto-fd-max.
C20_OpenWithinCap == Cardinality(OpenConns("service")) <= FdMax

(***************************************************************************)
(* Properties of the reaper.                                               *)
(***************************************************************************)
\* The reaper finds the connection's handle in a slot of the table.
InTable == conn.in_table /\ conn.st = "live"

\* What a visit of the reaper does when it takes the handle out of the
\* table: the slot goes back to g_freeslot and the table's reference is
\* released, once each.
Reaped(g) == ~g.in_table /\ g.rc = conn.rc - 1

\* C21 as stated: a visit of the reaper to a handle that is past the kill
\* time and not protected shuts its socket down, takes it out of the table
\* and releases the table's reference once; a protected handle and a
\* handle visited with a threshold of zero are not reaped for idleness.
C21_IdleReapedAndShutDown ==
    InTable =>
        \A kill_ms \in IdleMs, age \in Ages :
            LET g == thr_demarshal_reaper_fn(conn, kill_ms, age)
            IN  /\ PastKillTime(kill_ms, age) /\ ~conn.donot_reap =>
                     Reaped(g) /\ g.sock \in {"shutdown", "closed"}
                /\ ~conn.reap_me
                       /\ (conn.donot_reap \/ kill_ms = 0) => g = conn

\* C21, amended: the same, except that a handle already flagged reap_me is
\* taken out of the table and released without a shutdown, whatever its
\* age and its protection bit; its socket is closed by the last release.
C21_IdleReapedUnlessFlagged ==
    InTable =>
        \A kill_ms \in IdleMs, age \in Ages :
            LET g == thr_demarshal_reaper_fn(conn, kill_ms, age)
            IN  /\ conn.reap_me =>
                     /\ Reaped(g)
                     /\ g.sock = IF g.rc = 0 THEN "closed" ELSE conn.sock
                /\ ~conn.reap_me /\ PastKillTime(kill_ms, age)
                       /\ ~conn.donot_reap =>
                     /\ Reaped(g)
                     /\ g.sock = IF g.rc = 0 THEN "closed" ELSE "shutdown"
                /\ ~conn.reap_me
                       /\ (conn.donot_reap \/ ~PastKillTime(kill_ms, age)) =>
                     g = conn

\* The connection was reaped for idleness in the middle of a frame: its
\* socket is shut down, it is out of the table, and the reactor still
\* holds it.
C21_Witness ==
    /\ ~conn.in_table /\ ~conn.reap_me /\ conn.st = "live"
    /\ conn.sock = "shutdown" /\ conn.in_poll /\ conn.rc = 1
    /\ conn.txn = 0 /\ conn.ending = 0 /\ ~conn.trans_active
    /\ conn.proto # NoProto

(***************************************************************************)
(* Properties of the resize of the batch thread pool.                      *)
(***************************************************************************)
\* The queues that the resize under way, or just done, takes away.
SurplusQueues == Surplus(resize.threads, resize.threads_orig)

ShrinkDone ==
    resize.pc = "done" /\ resize.threads < resize.threads_orig

\* C22: a downward resize sends the stop command only after it has found
\* the count of every surplus queue at zero, and it sends one to each; when
\* it returns without a timeout every surplus worker has taken its stop
\* command and signalled completion once, the queues are destroyed and the
\* pool has the new size.  When it returns after a timeout every surplus
\* queue is active again, none was sent a stop command, none is destroyed,
\* the pool has its old size and the status is a failure.
C22_ShrinkDrainsOrAborts ==
    /\ [][resize.pc = "waiting" /\ resize'.pc = "stopping" =>
             \A i \in SurplusQueues : batch_queues[i].count = 0]_vars
    /\ [][resize.pc = "waiting" /\ resize'.pc = "done" =>
             \E i \in SurplusQueues : batch_queues[i].count > 0]_vars
    /\ [][resize.pc = "stopping" /\ resize'.pc = "joining" =>
             \A i \in QueueIds :
                 batch_queues'[i].stops =
                     IF i \in SurplusQueues THEN 1
                     ELSE batch_queues[i].stops]_vars
    /\ [](ShrinkDone /\ ~resize.timed_out =>
             /\ resize.status = 0
             /\ thread_size = resize.threads
             /\ \A i \in SurplusQueues :
                    /\ ~batch_queues[i].exists /\ ~batch_queues[i].active
                    /\ batch_queues[i].worker = "exited"
                    /\ batch_queues[i].stops = 1
                    /\ batch_queues[i].complete = 0)
    /\ [](ShrinkDone /\ resize.timed_out =>
             /\ resize.status = -1
             /\ thread_size = resize.threads_orig
             /\ \A i \in SurplusQueues :
                    /\ batch_queues[i].exists /\ batch_queues[i].active
                    /\ batch_queues[i].worker = "running"
                    /\ batch_queues[i].stops = 0)

\* A resize from two workers to one was aborted on timeout while one batch
\* was in flight on the surplus worker.
C22_Witness ==
    /\ ShrinkDone /\ resize.timed_out
    /\ resize.threads = MaxBatchThreads - 1
    /\ batch_queues[MaxBatchThreads - 1].count = 1
    /\ batch_queues[MaxBatchThreads - 1].active

\* C23: a batch is counted on a queue only while the queue is active, and
\* so no queue is destroyed while a batch counts on it or before a batch
\* pushes to it: no batch holds a null or destroyed response queue.
C23_NoBatchOnInactiveQueue ==
    /\ [][\A t \in Tasks :
             btask[t].pc = "found" /\ btask'[t].pc = "counted" =>
                 batch_queues[btask[t].queue].active]_vars
    /\ [](\A i \in QueueIds :
             ~batch_queues[i].busy_destroyed /\ ~batch_queues[i].dead_push)
    /\ [](\A t \in Tasks : btask[t].response_queue \notin {"null", "freed"})

(***************************************************************************)
(* Properties of the UDF pipeline: how a request ends.                     *)
(***************************************************************************)
\* The positions in the log of request t at which master-apply ended with
\* an error.
ApplyFailures(t) ==
    {i \in DOMAIN ulog[t] : ulog[t][i].ev = "master" /\ ulog[t][i].rc # "OK"}

\* C24: a request whose master-apply ended in an error is answered with
\* that error and has the status TRANS_DONE_ERROR, in as_udf_start and
\* after duplicate resolution.
C24_ApplyErrorIsDoneError ==
    \A t \in Trans : \A i \in ApplyFailures(t) :
        /\ i + 1 \in DOMAIN ulog[t]
        /\ ulog[t][i + 1].ev \in {"reply", "iudf_cb"}
        /\ ulog[t][i + 1].rc = ulog[t][i].rc
        /\ ustatus[t] = "TRANS_DONE_ERROR"

\* What as_udf_start does to queued request t when it rejects it with code
\* rc: one response with rc is added to the log and counted as an error of
\* its origin, and nothing else changes;
\* no rw_request is created or inserted and master-apply does not run.
RejectedAtStart(t, r, rc) ==
    /\ r.status = "TRANS_DONE_ERROR"
    /\ r.u.tr.result_code = rc
    /\ r.u.log = Append(ulog[t], Ev(IF utr[t].origin = "FROM_IUDF"
                                    THEN "iudf_cb" ELSE "reply", rc))
    /\ r.u.rw = urw[t]
    /\ r.u.rw.state # "in_hash"
    /\ r.u.stat =
           LET client == IF utr[t].origin = "FROM_CLIENT" THEN 1 ELSE 0
               iudf == IF utr[t].origin = "FROM_IUDF" THEN 1 ELSE 0
           IN  [urwstat[t] EXCEPT !.client_udf.error = @ + client,
                                  !.udf_hist = @ + client,
                                  !.udf_sub_udf.error = @ + iudf]

\* C25: as_udf_start on a queued request that the XDR filter rejects ends
\* with TRANS_DONE_ERROR and FORBIDDEN, and on one whose namespace is
\* overloaded with TRANS_DONE_ERROR and DEVICE_OVERLOAD; either way there
\* is exactly one response, no rw_request is created or inserted, and the
\* script does not run.
C25_RejectedAtStart ==
    \A t \in Trans : upc[t] = "queued" =>
        \A overloaded \in BOOLEAN, ins \in InsertResults :
            /\ RejectedAtStart(t,
                   as_udf_start_insert(t, FALSE, overloaded, ins), "FORBIDDEN")
            /\ RejectedAtStart(t,
                   as_udf_start_insert(t, TRUE, TRUE, ins), "DEVICE_OVERLOAD")

\* One request was rejected by the XDR filter and another one for overload.
C25_Witness ==
    \E t1, t2 \in Trans :
        /\ upc[t1] = "done" /\ ustatus[t1] = "TRANS_DONE_ERROR"
        /\ utr[t1].result_code = "FORBIDDEN"
        /\ Responses(t1) = 1 /\ Len(ulog[t1]) = 1
        /\ upc[t2] = "done" /\ ustatus[t2] = "TRANS_DONE_ERROR"
        /\ utr[t2].result_code = "DEVICE_OVERLOAD"
        /\ Responses(t2) = 1 /\ Len(ulog[t2]) = 1

(***************************************************************************)
(* Properties of the end of a UDF on the master.                           *)
(***************************************************************************)
\* The classification by the flags alone.
ClassByFlags(u) ==
    CASE u.has_updates /\ u.open -> "WRITE"
      [] u.has_updates /\ ~u.open /\ u.preexists -> "DELETE"
      [] u.has_updates /\ ~u.open /\ ~u.preexists -> "NONE"
      [] ~u.has_updates /\ u.preexists /\ ~u.open -> "DELETE"
      [] OTHER -> "READ"

\* The record the thread has classified and not yet closed.
Classified(r) ==
    finish.pc = "close" /\ finish.todo # <<>> /\ Head(finish.todo) = r

\* C26 as stated: the operation type of a record is the one its flags
\* give, except that a write that left no bin in use is a DELETE.
C26_ClassifiedByFlags ==
    \A r \in Records : urecord[r].present =>
        LET u == urecord[r]
            expected == IF ClassByFlags(u) = "WRITE" /\ ~u.bins
                        THEN "DELETE" ELSE ClassByFlags(u)
        IN  /\ udf_getop(u) = expected
            /\ Classified(r) => finish.op = expected

\* C26: the operation type of a record is DELETE when the record is open,
\* is not a sub-record and has no bin in use, whatever its other flags;
\* otherwise it is the one its flags give.
C26_ClassifiedByFlagsAndBins ==
    \A r \in Records : urecord[r].present =>
        LET u == urecord[r]
            expected == IF ~u.is_subrecord /\ u.open /\ ~u.bins
                        THEN "DELETE" ELSE ClassByFlags(u)
        IN  /\ udf_getop(u) = expected
            /\ Classified(r) => finish.op = expected

\* The head record was written by the script and left without a bin: it
\* was classified DELETE and taken out of the index.
C26_Witness ==
    /\ Classified(0)
    /\ urecord[0].has_updates /\ urecord[0].open /\ ~urecord[0].bins
    /\ finish.op = "DELETE" /\ ~urecord[0].in_index

\* C27: when udf_post_processing ships a record to XDR, as a write or as a
\* delete, it has closed that record before: the record is not open and
\* its storage record is not open at the xdr_write.
C27_ClosedBeforeXdr ==
    [][Len(finish'.xdr) > Len(finish.xdr) =>
          LET e == finish'.xdr[Len(finish'.xdr)]
          IN  /\ ~urecord[e.rec].open /\ ~urecord[e.rec].storage_open
              /\ ~urecord'[e.rec].open /\ ~urecord'[e.rec].storage_open]_vars

\* A deleted sub-record and then the written head record were shipped.
C27_Witness ==
    /\ finish.pc = "done"
    /\ Len(finish.xdr) = 2
    /\ finish.xdr[1] = [rec |-> 1, is_delete |-> TRUE]
    /\ finish.xdr[2] = [rec |-> 0, is_delete |-> FALSE]
    /\ \A r \in Records : ~urecord[r].open

(***************************************************************************)
(* Properties of the error emitter.                                        *)
(***************************************************************************)
\* The notification that goes to each origin that gets one.
NotifyKind(origin) ==
    CASE origin = "FROM_CLIENT" -> "client_reply"
      [] origin = "FROM_PROXY" -> "proxy_reply"
      [] origin = "FROM_BATCH" -> "batch_row"
      [] origin = "FROM_IUDF" -> "iudf_cb"

\* C28: as_transaction_error emits exactly one notification, of the kind
\* that goes with the origin and with the error code (UNKNOWN for code 0),
\* for a client, proxy, batch or internal-UDF transaction whose origin
\* pointer is set, and clears the pointer; it emits nothing when the
\* pointer is null, does nothing at all for an nsup transaction, and calls
\* cf_crash, emitting nothing, for an origin outside the closed set.
C28_OneNotificationByOrigin ==
    ~eout.crashed =>
        \A error_code \in ErrorCodes :
            LET g == as_transaction_error(ECtx, etr.ns, error_code)
                code == IF error_code = "OK" THEN "UNKNOWN" ELSE error_code
            IN  CASE etr.origin = "FROM_NSUP" -> g = ECtx
                  [] etr.origin \notin ClosedOrigins ->
                       g.crashed /\ g.sent = eout.sent
                  [] etr.from ->
                       /\ g.sent = Append(eout.sent,
                                          Notify(NotifyKind(etr.origin), code))
                       /\ ~g.tr.from /\ ~g.crashed
                  [] OTHER ->
                       g.sent = eout.sent /\ ~g.tr.from /\ ~g.crashed

\* The emitter was called twice on a batch sub-transaction: the batch got
\* one error row, from the first call.
C28_Witness ==
    /\ etr.origin = "FROM_BATCH" /\ ~etr.from
    /\ eout.calls = 2
    /\ eout.sent = <<Notify("batch_row", "TIMEOUT")>>
    /\ Len(eout.stats) = 2

(***************************************************************************)
(* Properties of the UDF pipeline: the timeout of a client request.        *)
(***************************************************************************)
\* C29: a client request whose timeout found the origin still set had its
\* connection force-closed once (the socket shut down, the transaction's
\* reference on the handle released once and the reactor resumed), got no
\* reply, and was counted once as a client UDF timeout with no data point
\* in the latency histogram; the handle of a client request that did not
\* time out is not touched by the timeout.
C29_TimeoutForceCloses ==
    \A t \in Trans : utr[t].origin = "FROM_CLIENT" =>
        LET fd == urwstat[t].fd_h
            st == urwstat[t]
        IN  IF HasEv(ulog[t], "force_close")
            THEN /\ CountEv(ulog[t], {"force_close"}) = 1
                 /\ Responses(t) = 0
                 /\ fd.sock = "shutdown"
                 /\ fd.rc = ClientHandle.rc - 1
                 /\ fd.txn = ClientHandle.txn - 1
                 /\ ~fd.trans_active /\ ~fd.uaf
                 /\ st.client_udf = [NoCount EXCEPT !.timeout = 1]
                 /\ st.udf_hist = 0
            ELSE /\ fd = ClientHandle
                 /\ st.client_udf.timeout = 0

\* A client request timed out during its replica writes.
C29_Witness ==
    \E t \in Trans :
        /\ utr[t].origin = "FROM_CLIENT"
        /\ urw[t].timed_out /\ urw[t].phase = "repl_write"
        /\ HasEv(ulog[t], "force_close")
        /\ urwstat[t].fd_h.sock = "shutdown"
        /\ urwstat[t].client_udf.timeout = 1


RECURSIVE SumSizes(_, _, _)
\* The bytes that the first k of the items of sizes take, each with its
\* size word.
SumSizes(sizes, k, word) ==
    IF k = 0 THEN 0 ELSE SumSizes(sizes, k - 1, word) + word + sizes[k]

\* Where the i-th field and the i-th op of a message start.
FieldPos(m, i) == sizeof_as_msg_bytes + SumSizes(m.fields, i - 1, sizeof_sz)
OpPos(m, i) ==
    FieldPos(m, Len(m.fields) + 1) + SumSizes(m.ops, i - 1, sizeof_sz)

\* The body holds the message header, and every field and every op, its
\* header and its payload, lies within the body.
WithinBody(m) ==
    /\ m.size >= sizeof_as_msg_bytes
    /\ \A i \in 1..Len(m.fields) :
           /\ m.fields[i] >= sizeof_as_msg_field - sizeof_sz
           /\ FieldPos(m, i) + sizeof_sz + m.fields[i] <= m.size
    /\ \A i \in 1..Len(m.ops) :
           /\ m.ops[i] >= sizeof_as_msg_op - sizeof_sz
           /\ OpPos(m, i) + sizeof_sz + m.ops[i] <= m.size

C31_SecondEndIsCritical ==
    eot.calls = 2 => eot.crashed /\ conn.rc = eot.rc

\* The statements of one invocation, in order.
EndStatements(force_close) ==
    IF force_close THEN <<"resume", "shutdown", "release">>
    ELSE <<"resume", "release">>

\* C32: one invocation of as_end_of_transaction on a connection handle
\* makes its statements in a fixed order: first the resume, which clears
\* trans_active and re-arms the socket for reading, then, in the
\* force-close variant only, the shutdown of the socket, then the release
\* of the transaction's reference; nothing touches the handle after the
\* release, and a resume that finds the socket already removed from the
\* poll set goes on without failure.
C32_EndInOrder ==
    eot.calls = 1 =>
        LET stmts == EndStatements(eot.force_close)
            n == Len(eot.log)
        IN  /\ ~eot.crashed
            /\ ~conn.uaf
            /\ n <= Len(stmts)
            /\ \A i \in 1..n : eot.log[i].op = stmts[i]
            /\ eot.pc = (IF n < Len(stmts) THEN stmts[n + 1] ELSE "done")
            /\ \A i \in 1..n :
                   LET s == eot.log[i] IN
                   /\ s.op = "resume" =>
                          /\ ~s.trans_active /\ s.d_rc = 0 /\ ~s.freed
                          /\ s.rearm \in {"ok", "ignored"}
                   /\ s.op = "shutdown" =>
                          s.sock = "shutdown" /\ s.d_rc = 0 /\ ~s.freed
                   /\ s.op = "release" => s.d_rc = -1 /\ i = Len(stmts)

\* A force-close invocation whose resume found the socket removed from the
\* poll set and whose release freed the handle.
C32_Witness ==
    /\ eot.calls = 1
    /\ eot.pc = "done"
    /\ eot.force_close
    /\ eot.log[1].rearm = "ignored"
    /\ eot.log[3].freed

(***************************************************************************)
(* Properties of the choice of a queue.                                    *)
(***************************************************************************)
\* The queues that could take a batch when the batch looked: active and
\* below the limit.
Accepting == {i \in FindIds : ftask.active[i] /\ ~ftask.full[i]}

\* C33: a new batch gets the queue at index (counter mod pool size) when
\* that queue is active and below the limit of buffers; otherwise the
\* nearest queue of lower index that is active and below the limit, else
\* the nearest one of higher index; the queue chosen is active and below
\* the limit when it is looked at, and BATCH_QUEUES_FULL is returned only
\* when no active queue is below the limit.
C33_NearestAcceptingQueue ==
    ftask.pc \in {"found", "rejected"} =>
        LET k == ftask.queue_index
            lower == {i \in Accepting : i < k}
            higher == {i \in Accepting : i > k}
        IN  /\ k \in Accepting => ftask.queue = k
            /\ k \notin Accepting /\ lower # {} =>
                   /\ ftask.queue \in lower
                   /\ \A i \in lower : i <= ftask.queue
            /\ k \notin Accepting /\ lower = {} /\ higher # {} =>
                   /\ ftask.queue \in higher
                   /\ \A i \in higher : ftask.queue <= i
            /\ ftask.pc = "found" => ftask.queue \in Accepting
            /\ ftask.pc = "rejected" <=> Accepting = {}

(***************************************************************************)
(* Properties of the reassembly of a frame.                                *)
(***************************************************************************)
\* The body of the frame that started at position start of the stream.
SentBody(start, sz) == [i \in 1..sz |-> start + i]

\* C34: however the bytes of a frame are split over readable events, the
\* header whole and the body in chunks, the message dispatched is byte for
\* byte the frame that was sent; proto_unread stays between 0 and the
\* declared size; a frame is dispatched exactly once and only when
\* proto_unread has reached 0; and the handle points to a partial frame
\* only between the receipt of the header and the dispatch.
C34_FrameReassembled ==
    /\ 0 <= rx.proto_unread /\ rx.proto_unread <= rx.sz
    /\ \A k \in DOMAIN rx.dispatched :
           LET m == rx.dispatched[k] IN
           /\ m.frame = k
           /\ m.data = SentBody(m.start, m.sz)
    /\ Len(rx.dispatched) = (IF rx.proto \/ rx.closed
                             THEN rx.frame - 1 ELSE rx.frame)
    /\ rx.proto => rx.proto_unread > 0 /\ ~rx.trans_active
    /\ rx.proto =>
           \A i \in 1..rx.sz :
               rx.data[i] = (IF i <= rx.sz - rx.proto_unread
                             THEN rx.start + i ELSE 0)
    /\ rx.pos = (IF rx.frame = 0 THEN 0
                 ELSE rx.start + rx.sz - rx.proto_unread)

\* Two frames were dispatched, the second one read in three events.
C34_Witness ==
    /\ Len(rx.dispatched) = 2
    /\ rx.dispatched[2].sz = MaxChunkBody
    /\ rx.dispatched[2].events = MaxChunkBody
    /\ rx.dispatched[2].start > 0
    /\ rx.dispatched[2].data = SentBody(rx.dispatched[2].start, MaxChunkBody)

(***************************************************************************)
(* Properties of the placement of results in buffers.                      *)
(***************************************************************************)
\* The capacity of a block of the buffer pool.
PooledCapacity == BufferSize - HeaderSize

\* What as_batch_reserve does with a result of the given size while the
\* batch has a current buffer.
PlacedByFit(size, status) ==
    LET cur == bsh.buffer
        v == as_batch_reserve(BCtx, size, status)
        fits == bbuf[cur].size + size <= bbuf[cur].capacity
    IN  IF fits
        THEN /\ v.buffer = cur /\ v.prev = 0
             /\ Len(v.b.buf) = Len(bbuf)
             /\ v.b.buf[cur].size = bbuf[cur].size + size
             /\ v.b.buf[cur].tran_count = bbuf[cur].tran_count + 1
        ELSE /\ v.buffer = Len(bbuf) + 1 /\ v.prev = cur
             /\ Len(v.b.buf) = Len(bbuf) + 1
             /\ v.b.sh.buffer = v.buffer
             /\ v.b.buf[cur].size = bbuf[cur].size
             /\ v.b.buf[cur].tran_count = bbuf[cur].tran_count

\* What as_batch_buffer_pop gives a result that is alone in its buffer: a
\* block of the pool up to the capacity of one, a buffer of its own size
\* beyond.
PooledOrDedicated(size, status) ==
    LET p == as_batch_buffer_pop(BCtx, size, status)
        new == p.b.buf[Len(bbuf) + 1]
    IN  status # "CF_QUEUE_ERR" \/ size > PooledCapacity =>
            /\ p.data
            /\ new.size = size
            /\ new.capacity = (IF size <= PooledCapacity THEN PooledCapacity
                               ELSE size)

\* C35: a row's result goes into the current buffer of the batch exactly
\* when the buffer's used size plus the size of the result does not exceed
\* its capacity, and a new buffer is opened for it otherwise; a result of
\* exactly block size minus header size fits a block of the pool, and a
\* result one unit larger gets a larger buffer of its own.
C35_PlacedByCapacity ==
    Accepted /\ ~Freed /\ bsh.tran_count < bsh.tran_max =>
        \A size \in 1..MaxTransactionSize, status \in PopResults :
            /\ bsh.buffer # 0 => PlacedByFit(size, status)
            /\ PooledOrDedicated(size, status)

\* A second result has filled the current buffer to its capacity, and a
\* result of the capacity of a block has a block to itself.
C35_Witness ==
    /\ \E id \in DOMAIN bbuf :
           /\ bbuf[id].tran_count = 2
           /\ bbuf[id].size = bbuf[id].capacity


(***************************************************************************)
(* Properties of internal UDFs on keys without a record.                   *)
(***************************************************************************)
\* The cases of udf_master_apply in which the key has no record to work on.
NoRecordCases == {c \in ApplyCases : c.rec \in {"absent", "expired"}}

\* Master-apply has left the given result code in request t.
MasterLeft(t, rc) ==
    \E i \in DOMAIN ulog[t] : ulog[t][i] = Ev("master", rc)

\* C36: an internal-UDF transaction on a key whose record is absent or
\* expired never creates a record: master-apply returns NOTFOUND without
\* running the script and with the operation type NONE, and the transaction
\* finishes with one invocation of the callback and without replica writes.
C36_InternalUdfNeverCreates ==
    /\ \A c \in NoRecordCases :
           udf_master_apply("FROM_IUDF", c) =
               ApplyOutcome("NONE", "NOTFOUND", FALSE, FALSE)
    /\ \A c \in ApplyCases :
           udf_master_apply("FROM_IUDF", c).rc = "NOTFOUND" => c \in NoRecordCases
    /\ \A t \in Trans :
           utr[t].origin = "FROM_IUDF" /\ MasterLeft(t, "NOTFOUND") =>
               /\ upc[t] = "done"
               /\ urw[t].state # "in_hash"
               /\ Responses(t) = 1
               /\ ~HasEv(ulog[t], "send_repl")
               /\ ustatus[t] \in {"TRANS_DONE_SUCCESS", "TRANS_IN_PROGRESS"}

\* An internal UDF found no record, directly in as_udf_start, and its
\* callback was told so.
C36_Witness ==
    \E t \in Trans :
        /\ utr[t].origin = "FROM_IUDF"
        /\ ustatus[t] = "TRANS_DONE_SUCCESS"
        /\ ulog[t] = <<Ev("master", "NOTFOUND"), Ev("iudf_cb", "NOTFOUND")>>

(***************************************************************************)
(* Properties of the end of a batch request: the connection and the        *)
(* statistics.                                                             *)
(***************************************************************************)
\* How often as_end_of_transaction has been invoked on the handle of the
\* batch's client.
BatchEnds ==
    Cardinality({i \in DOMAIN bsent : bsent[i].kind \in {"end", "force_close"}})

\* as_batch_queue_task has returned.
TaskReturned == bdisp.pc \in {"rejected", "done"}

\* The batch is over: rejected, or accepted and finished by its worker.
BatchOver == bdisp.pc = "rejected" \/ (bdisp.pc = "done" /\ Freed)

\* C37: for every batch request with a client handle, rejected at parse
\* time, completed normally or hit by a send failure, end-of-transaction is
\* invoked on the handle exactly once, and the handle pointer of the
\* dispatching transaction is cleared, so that the caller does not end it
\* again.
C37_EndedOnceAndCleared ==
    /\ BatchEnds <= 1
    /\ BatchEnds = 1 <=> (bdisp.pc # "new" /\ ~bsh.fd)
    /\ BatchOver => BatchEnds = 1
    /\ TaskReturned => ~bdisp.from
    /\ bdisp.from => bdisp.pc = "new" \/ Accepted

\* A batch of two buffers, accepted and cut short by a failed send after
\* its first buffer had gone out: the connection was force-closed then, and
\* the worker finished the batch without ending the transaction again.
C37_Witness ==
    /\ BatchOver
    /\ Accepted
    /\ ~bdisp.from
    /\ Len(bbuf) = 2
    /\ Len(bsent) = 2
    /\ bsent[1].kind = "buffer"
    /\ bsent[2].kind = "force_close"

\* The batches counted by the three statistics together.
BatchCounted ==
    bstat.batch_index_complete + bstat.batch_index_timeout
        + bstat.batch_index_errors

\* The result code the batch ends with: the one it was rejected with, or the
\* one in its shared state.
BatchResultCode ==
    IF bdisp.pc = "rejected" THEN as_batch_queue_task_check(bdisp.task)
    ELSE bsh.result_code

\* The trailer with result code 0 has gone out.
BatchTrailerOk ==
    /\ Accepted
    /\ Len(bsent) >= 2
    /\ bsent[Len(bsent) - 1] = Trailer("OK")
    /\ bsent[Len(bsent)].kind = "end"

\* C38: every batch request is counted exactly once, in exactly one of
\* batch_index_complete (trailer sent successfully with result code 0),
\* batch_index_timeout (result code TIMEOUT) and batch_index_errors (any
\* other error, a failed send of a buffer or of the trailer included).
C38_CountedOnce ==
    /\ BatchCounted <= 1
    /\ BatchCounted = BatchEnds
    /\ BatchOver => BatchCounted = 1
    /\ bstat.batch_index_complete = 1 <=> BatchTrailerOk
    /\ bstat.batch_index_timeout = 1 => BatchResultCode = "TIMEOUT"
    /\ bstat.batch_index_errors = 1 =>
           BatchResultCode \notin {"OK", "TIMEOUT"} \/ SendFailed
    /\ BatchOver /\ BatchResultCode = "TIMEOUT" /\ ~SendFailed =>
           bstat.batch_index_timeout = 1

\* A batch whose trailer carried TIMEOUT is counted as timed out and as
\* nothing else.
C38_Witness ==
    /\ BatchOver
    /\ Accepted
    /\ Len(bsent) >= 2
    /\ bsent[Len(bsent) - 1] = Trailer("TIMEOUT")
    /\ bstat = [NoBatchStat EXCEPT !.batch_index_timeout = 1]

\* The batch has been finalized: every buffer made for it has been pushed
\* to the response queue and taken off it by the worker, the worker has
\* counted all the rows, the shared state is freed, and the queue's count of
\* batches in flight, raised when the batch was assigned, is back down.
BatchFinalized ==
    /\ \A id \in BufferIds : bbuf[id].pushes = 1 /\ bbuf[id].released
    /\ bqueue = <<>>
    /\ bsh.tran_count_response = bsh.tran_max
    /\ bsh.freed = 1
    /\ bstat.count = 0

InHash(u) == u.rw.state = "in_hash"

\* The handler has sent replica writes that were not out before.
StartedReplWrite(t, u) ==
    CountEv(u.log, {"send_repl"}) = CountEv(ulog[t], {"send_repl"}) + 1

\* The ways as_udf_start returns for request t before the rw_request is in
\* the hash: refused by the XDR filter, overloaded, or the insert refused.
StartReturns(t) ==
    {as_udf_start_insert(t, in.xdr_ok, in.overloaded, in.ins) :
        in \in {x \in InsertInputs :
                   as_udf_start_insert(t, x.xdr_ok, x.overloaded, x.ins).status
                       # "TRANS_IN_PROGRESS"}}

\* C40: the rw_request that as_udf_start creates is in the request hash when
\* as_udf_start returns if and only if the status returned is IN_PROGRESS;
\* a dup-res completion keeps it in the hash if and only if it started a
\* replica write; on every path that finishes the transaction (hash insert
\* refused, dup-res start failure, master-apply done, no replica nodes,
\* replica-write start failure) the entry is removed or was never inserted.
C40_InHashIffInProgress ==
    \A t \in Trans :
        /\ upc[t] = "queued" => \A r \in StartReturns(t) : ~InHash(r.u)
        /\ upc[t] = "inserted" =>
               \A in \in ApplyInputs(utr[t].origin) :
                   LET r == as_udf_start_apply(t, in) IN
                   /\ InHash(r.u) <=> r.status = "TRANS_IN_PROGRESS"
                   /\ InHash(r.u) <=> r.u.rw.set_up
        /\ (urw[t].phase = "dup_res" /\ urw[t].from /\ InHash(Ctx(t))) =>
               \A in \in MasterInputs(urw[t].origin) :
                   LET r == udf_dup_res_cb(Ctx(t), in)
                       u == dup_res_handle_ack(Ctx(t), in)
                   IN  /\ ~r.delete <=> StartedReplWrite(t, r.u)
                       /\ InHash(u) <=> StartedReplWrite(t, u)
                       /\ InHash(u) <=> u.rw.phase = "repl_write"
        /\ upc[t] \in {"done", "waiting"} => ~InHash(Ctx(t))
        /\ (upc[t] # "queued" /\ InHash(Ctx(t))) =>
               ustatus[t] = "TRANS_IN_PROGRESS"

\* A dup-res completion has started the replica writes and left the
\* rw_request in the hash.
C40_Witness ==
    \E t \in Trans :
        /\ InHash(Ctx(t))
        /\ urw[t].phase = "repl_write"
        /\ HasEv(ulog[t], "send_dup")
        /\ HasEv(ulog[t], "send_repl")
=============================================================================
